---------------------------- MODULE Spec2Model ----------------------------
(***************************************************************************)
(* Redemption-code / license gate of the AI programming assistant          *)
(* (src/code_system.py) and the window that uses it (src/views.py: splash, *)
(* activation, feature gates, the prompt worker).                          *)
(* Strings are sequences of one-character strings,                         *)
(* so that strip() and upper() are computed.  A JSON file is the value it  *)
(* holds: the code file a function from code strings to records, the       *)
(* license file a record whose optional keys may be absent.  Python's None *)
(* is the empty sequence and a present value v is <<v>>.  The clock counts *)
(* days.                                                                   *)
(***************************************************************************)
EXTENDS Integers, Sequences, FiniteSets, TLC

\* ------------------------------------------------------------------ bounds
\* The clock runs from 0 to MaxTime.
MaxTime == 2
\* generate_batch is called with a count of 0..MaxBatch.
MaxBatch == 2
\* A service call reports its progress at most MaxProgress times.
MaxProgress == 1
\* The follow-up pages of one conversation: at most MaxPages with the first.
MaxPages == 2

\* follow-ups start while conversation_history has fewer messages than this
MaxHistory == 3

\* ----------------------------------------------------------------- strings
None == <<>>
Some(v) == <<v>>

Whitespace == {" ", "\t", "\n", "\r", "\f"}

LowerLetters ==
  <<"a", "b", "c", "d", "e", "f", "g", "h", "i", "j", "k", "l", "m",
    "n", "o", "p", "q", "r", "s", "t", "u", "v", "w", "x", "y", "z">>
UpperLetters ==
  <<"A", "B", "C", "D", "E", "F", "G", "H", "I", "J", "K", "L", "M",
    "N", "O", "P", "Q", "R", "S", "T", "U", "V", "W", "X", "Y", "Z">>

\* str.upper() on one character: the table of the letters it changes
UpperTable ==
  [ch \in {LowerLetters[i] : i \in 1..Len(LowerLetters)} |->
     UpperLetters[CHOOSE i \in 1..Len(LowerLetters) : LowerLetters[i] = ch]]

UpperChar(ch) == IF ch \in DOMAIN UpperTable THEN UpperTable[ch] ELSE ch

\* str.upper()
Upper(s) == [i \in 1..Len(s) |-> UpperChar(s[i])]

\* str.strip(): drop the leading and the trailing whitespace
RECURSIVE LStrip(_)
LStrip(s) ==
  IF s # <<>> /\ Head(s) \in Whitespace THEN LStrip(Tail(s)) ELSE s

RECURSIVE RStrip(_)
RStrip(s) ==
  IF s # <<>> /\ s[Len(s)] \in Whitespace
  THEN RStrip(SubSeq(s, 1, Len(s) - 1)) ELSE s

Strip(s) == RStrip(LStrip(s))

\* code.strip() without .upper()
NormalizeStripOnly(raw) == Strip(raw)

\* code.strip().upper()
Normalize(raw) == Upper(Strip(raw))

\* x in list
InList(x, list) == \E i \in 1..Len(list) : list[i] = x

\* d[k] = v on a dict (the key is added when absent)
SetKey(d, k, v) == [x \in DOMAIN d \cup {k} |-> IF x = k THEN v ELSE d[x]]

\* del d[k]
DelKey(d, k) == [x \in DOMAIN d \ {k} |-> d[x]]

\* d.get(k, default)
Get(d, k, default) == IF k \in DOMAIN d THEN d[k] ELSE default

\* --------------------------------------------------------------- constants
PresetBasic1 == <<"B", "A", "S", "I", "C", "-", "2", "0", "2", "4", "-",
                  "A", "B", "C", "D", "-", "1", "2", "3", "4">>
PresetBasic2 == <<"B", "A", "S", "I", "C", "-", "2", "0", "2", "4", "-",
                  "E", "F", "G", "H", "-", "5", "6", "7", "8">>
PresetBasic3 == <<"B", "A", "S", "I", "C", "-", "2", "0", "2", "4", "-",
                  "I", "J", "K", "L", "-", "9", "0", "1", "2">>
PresetPro1 == <<"P", "R", "O", "-", "2", "0", "2", "4", "-",
                "M", "N", "O", "P", "-", "3", "4", "5", "6">>
PresetPro2 == <<"P", "R", "O", "-", "2", "0", "2", "4", "-",
                "Q", "R", "S", "T", "-", "7", "8", "9", "0">>
PresetPro3 == <<"P", "R", "O", "-", "2", "0", "2", "4", "-",
                "U", "V", "W", "X", "-", "1", "3", "5", "7">>

PRESET_CODES ==
  (PresetBasic1 :> "basic") @@ (PresetBasic2 :> "basic") @@
  (PresetBasic3 :> "basic") @@ (PresetPro1 :> "pro") @@
  (PresetPro2 :> "pro") @@ (PresetPro3 :> "pro")

\* PACKAGES with the pro package listing video_parser
PackagesWithVideoParser ==
  [basic |-> [name |-> "basic edition",
              features |-> <<"prompt", "jump">>,
              description |-> "prompt + jump"],
   pro   |-> [name |-> "pro edition",
              features |-> <<"prompt", "jump", "package", "video_parser">>,
              description |-> "prompt + jump + PyInstaller packaging"]]

PACKAGES ==
  [basic |-> [name |-> "basic edition",
              features |-> <<"prompt", "jump">>,
              description |-> "prompt + jump"],
   pro   |-> [name |-> "pro edition",
              features |-> <<"prompt", "jump", "package">>,
              description |-> "prompt + jump + PyInstaller packaging"]]

FEATURES == {"prompt", "jump", "package"}

\* the alphabet generate_code draws from
chars ==
  <<"A", "B", "C", "D", "E", "F", "G", "H", "J", "K", "L", "M", "N", "P",
    "Q", "R", "S", "T", "U", "V", "W", "X", "Y", "Z", "2", "3", "4", "5",
    "6", "7", "8", "9">>

\* the messages of verify_code and redeem_code
MsgPresetUsed == <<"preset code already used on this machine">>
MsgValid == <<"code valid">>
MsgInvalid == <<"code not found">>
MsgUsed == <<"code already used">>
MsgExpired == <<"code expired">>
MsgActivated(package_info) ==
  <<"activated", package_info.name, package_info.description>>

\* the license file _ensure_files, _load_license and reset_license write
DefaultLicense == [unlocked_features |-> <<>>, activated_at |-> None]


\* ------------------------------------------------------------------- files
\* what a file that cannot be read or parsed holds
Unreadable == [unreadable |-> TRUE]

\* _load_codes: the code map, {} when the file cannot be read
_load_codes(file) == IF file = Unreadable THEN <<>> ELSE file

\* _load_license falling back to a license with every feature unlocked
_load_license_fail_open(file) ==
  IF file = Unreadable
  THEN [unlocked_features |-> <<"prompt", "jump", "package">>,
        activated_at |-> None]
  ELSE file

\* _load_license: the license record, the default when the file cannot be read
_load_license(file) == IF file = Unreadable THEN DefaultLicense ELSE file

\* _load_used_preset_codes
_load_used_preset_codes(file) == Get(_load_license(file), "used_preset_codes", <<>>)

\* _save_used_preset_code without license_data["used_preset_codes"] = used:
\* the append reaches the file only when the key is already there
_save_used_preset_code_unassigned(file, code) ==
  LET license_data == _load_license(file)
      used == Get(license_data, "used_preset_codes", <<>>)
  IN  IF ~InList(code, used) /\ "used_preset_codes" \in DOMAIN license_data
      THEN SetKey(license_data, "used_preset_codes", Append(used, code))
      ELSE license_data

\* _save_used_preset_code: the license file after the call
_save_used_preset_code(file, code) ==
  LET license_data == _load_license(file)
      used == Get(license_data, "used_preset_codes", <<>>)
  IN  IF ~InList(code, used)
      THEN SetKey(license_data, "used_preset_codes", Append(used, code))
      ELSE file

\* ------------------------------------------------------------ code manager
\* generate_code: '-'.join of four segments of four drawn characters
MakeCode(draw) ==
  SubSeq(draw, 1, 4) \o <<"-">> \o SubSeq(draw, 5, 8) \o <<"-">> \o
  SubSeq(draw, 9, 12) \o <<"-">> \o SubSeq(draw, 13, 16)

\* generate_code: expires_at, None unless expires_days is truthy
ExpiresAt(expires_days, t) ==
  IF expires_days # None /\ expires_days[1] # 0
  THEN Some(t + expires_days[1]) ELSE None

\* generate_code: the code file after the call
generate_code(file, code, package_type, expires_days, t) ==
  SetKey(_load_codes(file), code,
         [package_type |-> package_type,
          expires_at |-> ExpiresAt(expires_days, t),
          is_used |-> FALSE,
          created_at |-> t])

\* generate_batch: the code file after generate_code on each draw in turn
RECURSIVE generate_batch(_, _, _, _, _)
generate_batch(file, draws, package_type, expires_days, t) ==
  IF draws = <<>> THEN file
  ELSE generate_batch(
         generate_code(file, MakeCode(Head(draws)), package_type,
                       expires_days, t),
         Tail(draws), package_type, expires_days, t)

\* verify_code without the is_used check
verify_code_ignoring_used(codesFile, licenseFile, raw, t) ==
  LET code == Normalize(raw)
      cs == _load_codes(codesFile)
  IN  IF code \in DOMAIN PRESET_CODES
      THEN IF InList(code, _load_used_preset_codes(licenseFile))
           THEN [ok |-> FALSE, msg |-> MsgPresetUsed, pkg |-> None]
           ELSE [ok |-> TRUE, msg |-> MsgValid, pkg |-> Some(PRESET_CODES[code])]
      ELSE IF code \notin DOMAIN cs
      THEN [ok |-> FALSE, msg |-> MsgInvalid, pkg |-> None]
      ELSE IF cs[code].expires_at # None /\ t > cs[code].expires_at[1]
      THEN [ok |-> FALSE, msg |-> MsgExpired, pkg |-> None]
      ELSE [ok |-> TRUE, msg |-> MsgValid, pkg |-> Some(cs[code].package_type)]

\* verify_code without the expiry check
verify_code_without_expiry(codesFile, licenseFile, raw, t) ==
  LET code == Normalize(raw)
      cs == _load_codes(codesFile)
  IN  IF code \in DOMAIN PRESET_CODES
      THEN IF InList(code, _load_used_preset_codes(licenseFile))
           THEN [ok |-> FALSE, msg |-> MsgPresetUsed, pkg |-> None]
           ELSE [ok |-> TRUE, msg |-> MsgValid, pkg |-> Some(PRESET_CODES[code])]
      ELSE IF code \notin DOMAIN cs
      THEN [ok |-> FALSE, msg |-> MsgInvalid, pkg |-> None]
      ELSE IF cs[code].is_used
      THEN [ok |-> FALSE, msg |-> MsgUsed, pkg |-> None]
      ELSE [ok |-> TRUE, msg |-> MsgValid, pkg |-> Some(cs[code].package_type)]

\* verify_code: (valid, message, package type)
verify_code(codesFile, licenseFile, raw, t) ==
  LET code == Normalize(raw)
      cs == _load_codes(codesFile)
  IN  IF code \in DOMAIN PRESET_CODES
      THEN IF InList(code, _load_used_preset_codes(licenseFile))
           THEN [ok |-> FALSE, msg |-> MsgPresetUsed, pkg |-> None]
           ELSE [ok |-> TRUE, msg |-> MsgValid, pkg |-> Some(PRESET_CODES[code])]
      ELSE IF code \notin DOMAIN cs
      THEN [ok |-> FALSE, msg |-> MsgInvalid, pkg |-> None]
      ELSE IF cs[code].is_used
      THEN [ok |-> FALSE, msg |-> MsgUsed, pkg |-> None]
      ELSE IF cs[code].expires_at # None /\ t > cs[code].expires_at[1]
      THEN [ok |-> FALSE, msg |-> MsgExpired, pkg |-> None]
      ELSE [ok |-> TRUE, msg |-> MsgValid, pkg |-> Some(cs[code].package_type)]

\* redeem_code: PACKAGES.get(package_type, PACKAGES["basic"])
PackageInfo(package_type) ==
  IF package_type \in DOMAIN PACKAGES THEN PACKAGES[package_type]
  ELSE PACKAGES["basic"]

\* redeem_code recording used_at and leaving is_used as it was
MarkUsedNoFlag(cs, code, t) ==
  [cs EXCEPT ![code] = SetKey(@, "used_at", t)]

\* redeem_code: the loaded code map with the code marked used
MarkUsed(cs, code, t) ==
  [cs EXCEPT ![code] = SetKey(SetKey(@, "is_used", TRUE), "used_at", t)]

\* redeem_code adding the package's features to those already unlocked
UnlockUnion(license_data, package_type, t) ==
  LET old == license_data.unlocked_features
      new == PackageInfo(package_type).features
      kept == SelectSeq(old, LAMBDA f : ~InList(f, new))
  IN  SetKey(SetKey(SetKey(license_data, "unlocked_features", kept \o new),
                    "activated_at", Some(t)),
             "package_type", package_type)

\* redeem_code: the loaded license with the package's features unlocked
Unlock(license_data, package_type, t) ==
  SetKey(SetKey(SetKey(license_data, "unlocked_features",
                       PackageInfo(package_type).features),
                "activated_at", Some(t)),
         "package_type", package_type)

\* redeem_code marking a stored code used before looking at verify_code's answer
redeem_code_marking_first(codesFile, licenseFile, raw, t) ==
  LET code == Normalize(raw)
      v == verify_code(codesFile, licenseFile, code, t)
      preset == code \in DOMAIN PRESET_CODES
      stored == code \in DOMAIN _load_codes(codesFile)
      marked == IF preset THEN _save_used_preset_code(licenseFile, code)
                ELSE licenseFile
      used == IF ~preset /\ stored
              THEN MarkUsed(_load_codes(codesFile), code, t) ELSE codesFile
  IN  IF ~v.ok
      THEN [ok |-> FALSE, msg |-> v.msg, codes |-> used, license |-> marked]
      ELSE [ok |-> TRUE, msg |-> MsgActivated(PackageInfo(v.pkg[1])),
            codes |-> used,
            license |-> Unlock(_load_license(marked), v.pkg[1], t)]

\* redeem_code: (success, message) and the two files after the call
redeem_code(codesFile, licenseFile, raw, t) ==
  LET code == Normalize(raw)
      v == verify_code(codesFile, licenseFile, code, t)
      preset == code \in DOMAIN PRESET_CODES
      marked == IF preset THEN _save_used_preset_code(licenseFile, code)
                ELSE licenseFile
  IN  IF ~v.ok
      THEN [ok |-> FALSE, msg |-> v.msg,
            codes |-> codesFile, license |-> licenseFile]
      ELSE [ok |-> TRUE, msg |-> MsgActivated(PackageInfo(v.pkg[1])),
            codes |-> IF preset THEN codesFile
                      ELSE MarkUsed(_load_codes(codesFile), code, t),
            license |-> Unlock(_load_license(marked), v.pkg[1], t)]

\* delete_code without self._save_codes(codes)
delete_code_without_save(codesFile, code) ==
  [ok |-> code \in DOMAIN _load_codes(codesFile), codes |-> codesFile]

\* delete_code: the returned flag and the code file after the call
delete_code(codesFile, code) ==
  IF code \in DOMAIN _load_codes(codesFile)
  THEN [ok |-> TRUE, codes |-> DelKey(_load_codes(codesFile), code)]
  ELSE [ok |-> FALSE, codes |-> codesFile]

\* reset_license emptying the features and keeping the activation time
reset_license_keeping_activation(file) ==
  [unlocked_features |-> <<>>, activated_at |-> _load_license(file).activated_at]

\* reset_license: the license file after the call
reset_license(file) == DefaultLicense

\* get_all_codes: one row per stored code, the code added to its record;
\* the rows as a set (the list is sorted by created_at, newest first)
get_all_codes(codesFile) ==
  LET cs == _load_codes(codesFile)
  IN  {SetKey(cs[c], "code", c) : c \in DOMAIN cs}

\* is_feature_unlocked
is_feature_unlocked(licenseFile, feature) ==
  InList(feature, Get(_load_license(licenseFile), "unlocked_features", <<>>))

\* get_unlocked_features, as a set
get_unlocked_features(licenseFile) ==
  LET fs == Get(_load_license(licenseFile), "unlocked_features", <<>>)
  IN  {fs[i] : i \in 1..Len(fs)}


\* ------------------------------------------------------------------ inputs
\* the installations, each with its own data directory
Machines == {"m1", "m2"}

\* a drawn code of a bounded run repeats one character of the alphabet
Draw(c) == [i \in 1..16 |-> c]
CodeA == MakeCode(Draw(chars[1]))
UnknownCode == MakeCode(Draw(chars[32]))

PackageTypes == {"basic", "pro"}
ExpiresDays == {None, Some(0), Some(1), Some(-1)}

\* a code as a user may type it: lower case
Lower(s) ==
  [i \in 1..Len(s) |->
     IF \E j \in 1..Len(UpperLetters) : UpperLetters[j] = s[i]
     THEN LowerLetters[CHOOSE j \in 1..Len(UpperLetters) : UpperLetters[j] = s[i]]
     ELSE s[i]]

\* the texts typed into verify_code and redeem_code
RawInputs ==
  {CodeA, <<" ">> \o Lower(CodeA) \o <<"\n">>,
   PresetBasic1, PresetPro1, <<"\t">> \o Lower(PresetPro1) \o <<" ">>,
   UnknownCode}

\* the codes passed to delete_code
DeleteInputs == {CodeA, Lower(CodeA)}

\* ------------------------------------------------------------ data manager
\* DataManager (src/models.py): the prompt history, the custom snippets, the
\* custom AI websites and the custom language configuration, each a JSON
\* file, with the built-in tables of config.py.

\* save_history keeps history[-50:]
HISTORY_CAP == 50

\* _add_to_history is called at most this many times
MaxAdds == 52

\* a file that does not exist
Missing == [missing |-> TRUE]

\* _load_json: the parsed file, the default when it is missing or unreadable
_load_json(file, default) ==
  IF "json" \in DOMAIN file THEN file.json ELSE default

\* _save_json: the file after json.dump(data)
_save_json(file, data) == [json |-> data]

\* load_history
load_history(file) == _load_json(file, <<>>)

\* list[-n:]: the last n items, the whole list when it has no more than n
LastItems(list, n) ==
  IF Len(list) <= n THEN list ELSE SubSeq(list, Len(list) - n + 1, Len(list))

\* save_history keeping history[:50], the oldest records
save_history_keeping_oldest(file, history) ==
  _save_json(file, SubSeq(history, 1, IF Len(history) <= HISTORY_CAP
                                      THEN Len(history) ELSE HISTORY_CAP))

\* save_history: history[-50:] is saved
save_history(file, history) ==
  _save_json(file, LastItems(history, HISTORY_CAP))

\* add_history: load, append the record, save_history
add_history(file, record) ==
  save_history(file, Append(load_history(file), record))

\* clear_history
clear_history(file) == _save_json(file, <<>>)

\* list.pop(index) for an index of the list, counted from 0
Pop(list, index) ==
  SubSeq(list, 1, index) \o SubSeq(list, index + 2, Len(list))

\* config.DEFAULT_SNIPPETS: the built-in snippets (one stands for the table)
PresetSnippet == "a preset snippet"
DEFAULT_SNIPPETS ==
  [name \in {PresetSnippet} |->
     [category |-> "built-in", content |-> "the built-in text", is_preset |-> TRUE]]

\* load_snippets
load_snippets(file) == _load_json(file, <<>>)

\* save_snippets
save_snippets(file, snippets) == _save_json(file, snippets)

\* get_all_snippets merging as get_all_templates does: {**DEFAULT, **custom}
get_all_snippets_custom_first(file) ==
  LET custom == load_snippets(file)
  IN  [name \in DOMAIN DEFAULT_SNIPPETS \cup DOMAIN custom |->
         IF name \in DOMAIN custom THEN custom[name] ELSE DEFAULT_SNIPPETS[name]]

\* get_all_snippets: the built-in snippets, and the custom ones of other names
get_all_snippets(file) ==
  LET custom == load_snippets(file)
  IN  [name \in DOMAIN DEFAULT_SNIPPETS \cup DOMAIN custom |->
         IF name \in DOMAIN DEFAULT_SNIPPETS
         THEN DEFAULT_SNIPPETS[name] ELSE custom[name]]

\* the snippet that add_snippet and update_snippet store
Snippet(category, content) ==
  [category |-> category, content |-> content, is_preset |-> FALSE]

\* add_snippet: the returned flag and the file after the call
add_snippet(file, name, category, content) ==
  IF name \in DOMAIN DEFAULT_SNIPPETS
  THEN [ok |-> FALSE, file |-> file]
  ELSE [ok |-> TRUE,
        file |-> save_snippets(file, SetKey(load_snippets(file), name,
                                            Snippet(category, content)))]

\* update_snippet
update_snippet(file, name, category, content) ==
  IF name \in DOMAIN DEFAULT_SNIPPETS \/ name \notin DOMAIN load_snippets(file)
  THEN [ok |-> FALSE, file |-> file]
  ELSE [ok |-> TRUE,
        file |-> save_snippets(file, SetKey(load_snippets(file), name,
                                            Snippet(category, content)))]

\* delete_snippet
delete_snippet(file, name) ==
  IF name \in DOMAIN DEFAULT_SNIPPETS \/ name \notin DOMAIN load_snippets(file)
  THEN [ok |-> FALSE, file |-> file]
  ELSE [ok |-> TRUE,
        file |-> save_snippets(file, DelKey(load_snippets(file), name))]

\* config.DEFAULT_AI_WEBSITES: the built-in websites (one stands for the table)
PresetWebsite == "a preset website"
DEFAULT_AI_WEBSITES ==
  [name \in {PresetWebsite} |->
     [url |-> "the built-in url", description |-> "built-in", is_preset |-> TRUE]]

\* load_ai_websites
load_ai_websites(file) == _load_json(file, <<>>)

\* save_ai_websites
save_ai_websites(file, websites) == _save_json(file, websites)

\* get_all_ai_websites: the built-in websites, and the custom ones of other names
get_all_ai_websites(file) ==
  LET custom == load_ai_websites(file)
  IN  [name \in DOMAIN DEFAULT_AI_WEBSITES \cup DOMAIN custom |->
         IF name \in DOMAIN DEFAULT_AI_WEBSITES
         THEN DEFAULT_AI_WEBSITES[name] ELSE custom[name]]

\* the website that add_ai_website and update_ai_website store
Website(url, description) ==
  [url |-> url, description |-> description, is_preset |-> FALSE]

\* add_ai_website
add_ai_website(file, name, url, description) ==
  IF name \in DOMAIN DEFAULT_AI_WEBSITES
  THEN [ok |-> FALSE, file |-> file]
  ELSE [ok |-> TRUE,
        file |-> save_ai_websites(file, SetKey(load_ai_websites(file), name,
                                               Website(url, description)))]

\* update_ai_website
update_ai_website(file, name, url, description) ==
  IF name \in DOMAIN DEFAULT_AI_WEBSITES
     \/ name \notin DOMAIN load_ai_websites(file)
  THEN [ok |-> FALSE, file |-> file]
  ELSE [ok |-> TRUE,
        file |-> save_ai_websites(file, SetKey(load_ai_websites(file), name,
                                               Website(url, description)))]

\* delete_ai_website
delete_ai_website(file, name) ==
  IF name \in DOMAIN DEFAULT_AI_WEBSITES
     \/ name \notin DOMAIN load_ai_websites(file)
  THEN [ok |-> FALSE, file |-> file]
  ELSE [ok |-> TRUE,
        file |-> save_ai_websites(file, DelKey(load_ai_websites(file), name))]

\* config.LANGUAGE_FRAMEWORKS as imported: the built-in languages (one
\* language with one category stands for the table)
BuiltinLanguages ==
  [lang \in {"Python"} |->
     [icon |-> "py", categories |-> [cat \in {"Web"} |-> <<"Django">>]]]

\* load_custom_config: its default
DefaultCustomConfig == [languages |-> <<>>, priorities |-> <<>>]

\* load_custom_config
load_custom_config(file) == _load_json(file, DefaultCustomConfig)

\* save_custom_config
save_custom_config(file, config) == _save_json(file, config)

\* get_all_languages: for fw in frameworks: if fw not in existing:
\* existing.append(fw)
RECURSIVE MergeFrameworks(_, _)
MergeFrameworks(existing, frameworks) ==
  IF frameworks = <<>> THEN existing
  ELSE MergeFrameworks(IF InList(Head(frameworks), existing) THEN existing
                       ELSE Append(existing, Head(frameworks)),
                       Tail(frameworks))

\* get_all_languages: the categories dict of a language of the table after
\* the categories of its custom extension `info` are merged into it
MergeCategories(categories, info) ==
  LET custom == Get(info, "categories", <<>>)
  IN  [cat \in DOMAIN categories \cup DOMAIN custom |->
         IF cat \notin DOMAIN categories THEN custom[cat]
         ELSE IF cat \in DOMAIN custom
         THEN MergeFrameworks(categories[cat], custom[cat])
         ELSE categories[cat]]

\* get_all_languages: what it returns, and LANGUAGE_FRAMEWORKS after the
\* call; dict(LANGUAGE_FRAMEWORKS) copies the outer dict only, so the merge
\* writes into the categories of the table's own entries
get_all_languages(file, table) ==
  LET custom_languages == Get(load_custom_config(file), "languages", <<>>)
      merged == [lang \in DOMAIN table |->
                   IF lang \in DOMAIN custom_languages
                   THEN [table[lang] EXCEPT
                           !.categories = MergeCategories(@, custom_languages[lang])]
                   ELSE table[lang]]
  IN  [table |-> merged,
       result |-> [lang \in DOMAIN merged \cup DOMAIN custom_languages |->
                     IF lang \in DOMAIN merged THEN merged[lang]
                     ELSE custom_languages[lang]]]

\* config["languages"], {} when the key is absent
Languages(config) == Get(config, "languages", <<>>)

\* config with config["languages"] = languages
WithLanguages(config, languages) == SetKey(config, "languages", languages)

\* add_language: the returned flag and the file after the call
add_language(file, table, name, icon) ==
  IF name \in DOMAIN table
  THEN [ok |-> FALSE, file |-> file]
  ELSE LET config == load_custom_config(file)
       IN  [ok |-> TRUE,
            file |-> save_custom_config(file,
              WithLanguages(config,
                SetKey(Languages(config), name,
                       [icon |-> icon,
                        categories |-> [cat \in {"general"} |-> <<"custom">>]])))]

\* add_category_to_language and add_framework_to_category: the entry of the
\* language in config["languages"], created empty for a built-in language
Extension(config, table, language) ==
  IF language \in DOMAIN Languages(config) THEN Languages(config)[language]
  ELSE [icon |-> Get(table[language], "icon", "globe"), categories |-> <<>>]

\* add_category_to_language
add_category_to_language(file, table, language, category, frameworks) ==
  LET config == load_custom_config(file)
  IN  IF language \notin DOMAIN Languages(config) /\ language \notin DOMAIN table
      THEN [ok |-> FALSE, file |-> file]
      ELSE LET info == Extension(config, table, language)
           IN  [ok |-> TRUE,
                file |-> save_custom_config(file,
                  WithLanguages(config,
                    SetKey(Languages(config), language,
                      [info EXCEPT !.categories =
                         SetKey(@, category,
                                IF frameworks = None \/ frameworks[1] = <<>>
                                THEN <<"custom">> ELSE frameworks[1])])))]

\* add_framework_to_category
add_framework_to_category(file, table, language, category, framework) ==
  LET config == load_custom_config(file)
  IN  IF language \notin DOMAIN Languages(config) /\ language \notin DOMAIN table
      THEN [ok |-> FALSE, file |-> file]
      ELSE LET info == Extension(config, table, language)
               old == Get(info.categories, category, <<>>)
           IN  [ok |-> TRUE,
                file |-> save_custom_config(file,
                  WithLanguages(config,
                    SetKey(Languages(config), language,
                      [info EXCEPT !.categories =
                         SetKey(@, category,
                                IF InList(framework, old) THEN old
                                ELSE Append(old, framework))])))]

\* delete_custom_language
delete_custom_language(file, table, name) ==
  LET config == load_custom_config(file)
  IN  IF name \in DOMAIN table \/ name \notin DOMAIN Languages(config)
      THEN [ok |-> FALSE, file |-> file]
      ELSE [ok |-> TRUE,
            file |-> save_custom_config(file,
              WithLanguages(config, DelKey(Languages(config), name)))]

\* ------------------------------------------------------------------- state
VARIABLES
  codes,     \* codes[m]: the content of machine m's codes.json
  license,   \* license[m]: the content of machine m's license.json
  now,       \* datetime.now(), in days
  redeemed,  \* redeemed[m]: the codes redeem_code succeeded on, once and again
  pc,        \* pc[t]: where thread t stands in its redeem_code call
  loc,       \* loc[t]: the locals of thread t's redeem_code call
  screen,    \* what the window shows: the splash, the activation or the main UI
  is_admin,  \* MainApp.is_admin
  enter_timers,        \* the pending after(1500, self._enter_main_app) calls
  _generating,         \* MainApp._generating
  generate_btn,        \* the state of MainApp.generate_btn
  followup_btn,        \* the state of MainApp.followup_btn
  conversation_pages,  \* len(MainApp.conversation_pages)
  worker,    \* the background thread of _generate_prompt or _send_followup
  after_queue,         \* the after(0, ...) callbacks the UI thread has yet to run
  _config_unlocked,    \* MainApp._config_unlocked
  ext,       \* the last call that left the program: chat API or PyInstaller
  conversation_history, \* the roles of PromptGeneratorService.conversation_history
  history_file,        \* the content of HISTORY_FILE
  history_added,       \* how many records _add_to_history has created
  snippets_file,       \* the content of SNIPPETS_FILE
  ai_websites_file,    \* the content of AI_WEBSITES_FILE
  custom_config_file,  \* the content of CUSTOM_CONFIG_FILE
  LANGUAGE_FRAMEWORKS  \* the dict config.LANGUAGE_FRAMEWORKS in memory

\* the state of the window (src/views.py)
view == <<screen, is_admin, enter_timers, _generating, generate_btn,
          followup_btn, conversation_pages, worker, after_queue,
          _config_unlocked, ext, conversation_history>>

\* the state of the data manager (src/models.py)
data == <<history_file, history_added, snippets_file, ai_websites_file,
          custom_config_file, LANGUAGE_FRAMEWORKS>>

vars == <<codes, license, now, redeemed, pc, loc, view, data>>

\* the threads that call redeem_code on machine m1 without a lock
Threads == {"t1", "t2"}
threads == <<pc, loc>>

\* no thread is running
NoWorker ==
  [kind |-> "none", running |-> FALSE, called |-> FALSE, posted |-> 0,
   progress |-> 0]

\* no call has left the program
NoExt == [service |-> "none", gate_open |-> TRUE]

\* MainApp.__init__: the flags as set, the splash screen shown
InitView ==
  /\ screen = "splash"
  /\ is_admin = FALSE
  /\ enter_timers = 0
  /\ _generating = FALSE
  /\ generate_btn = "normal"
  /\ followup_btn = "normal"
  /\ conversation_pages = 0
  /\ worker = NoWorker
  /\ after_queue = <<>>
  /\ _config_unlocked = FALSE
  /\ ext = NoExt
  /\ conversation_history = <<>>

\* a fresh data directory: no file of the data manager exists, and
\* config.py is imported
InitData ==
  /\ history_file = Missing
  /\ history_added = 0
  /\ snippets_file = Missing
  /\ ai_websites_file = Missing
  /\ custom_config_file = Missing
  /\ LANGUAGE_FRAMEWORKS = BuiltinLanguages

\* the locals of a call not yet made
IdleLoc ==
  [raw |-> <<>>, code |-> <<>>, pkg |-> None, seen |-> FALSE,
   cs |-> <<>>, lic |-> DefaultLicense, ok |-> FALSE, msg |-> <<>>]

\* CodeManager.__init__ on a fresh data directory (_ensure_files)
Init ==
  /\ codes = [m \in Machines |-> <<>>]
  /\ license = [m \in Machines |-> DefaultLicense]
  /\ now = 0
  /\ redeemed = [m \in Machines |-> [once |-> {}, again |-> {}]]
  /\ pc = [t \in Threads |-> "idle"]
  /\ loc = [t \in Threads |-> IdleLoc]
  /\ InitView
  /\ InitData

\* the clock advances
Tick ==
  /\ now < MaxTime
  /\ now' = now + 1
  /\ UNCHANGED <<codes, license, redeemed, threads, view, data>>

\* generate_code(package_type, expires_days) drawing `draw`
GenerateCode(m, package_type, expires_days, draw) ==
  /\ codes' = [codes EXCEPT ![m] =
                 generate_code(@, MakeCode(draw), package_type, expires_days, now)]
  /\ UNCHANGED <<license, now, data, redeemed, threads, view>>

\* generate_batch(package_type, count, expires_days) drawing draws[1..count]
GenerateBatch(m, package_type, draws, expires_days) ==
  /\ codes' = [codes EXCEPT ![m] =
                 generate_batch(@, draws, package_type, expires_days, now)]
  /\ UNCHANGED <<license, now, data, redeemed, threads, view>>

\* verify_code(raw): reads, and writes nothing
Verify(m, raw) ==
  /\ verify_code(codes[m], license[m], raw, now).ok \in BOOLEAN
  /\ UNCHANGED vars

\* the history of successful redemptions, after one more of `code`
Record(h, code) ==
  [once |-> h.once \cup {code},
   again |-> IF code \in h.once THEN h.again \cup {code} ELSE h.again]

\* redeem_code(raw)
Redeem(m, raw) ==
  LET r == redeem_code(codes[m], license[m], raw, now)
  IN  /\ codes' = [codes EXCEPT ![m] = r.codes]
      /\ license' = [license EXCEPT ![m] = r.license]
      /\ redeemed' = IF r.ok
                     THEN [redeemed EXCEPT ![m] = Record(@, Normalize(raw))]
                     ELSE redeemed
      /\ UNCHANGED <<now, data, threads, view>>

\* delete_code(code)
Delete(m, code) ==
  /\ codes' = [codes EXCEPT ![m] = delete_code(@, code).codes]
  /\ UNCHANGED <<license, now, data, redeemed, threads, view>>

\* reset_license()
ResetLicense(m) ==
  /\ license' = [license EXCEPT ![m] = reset_license(@)]
  /\ UNCHANGED <<codes, now, data, redeemed, threads, view>>

\* the calls on machine m, with their inputs drawn from the given sets
Calls(m, chs, exps, raws, dels, maxBatch) ==
  \/ \E p \in PackageTypes, e \in exps, c \in chs :
       GenerateCode(m, p, e, Draw(c))
  \/ \E p \in PackageTypes, e \in exps, n \in 0..maxBatch :
       \E ds \in [1..n -> {Draw(c) : c \in chs}] : GenerateBatch(m, p, ds, e)
  \/ \E raw \in raws : Verify(m, raw)
  \/ \E raw \in raws : Redeem(m, raw)
  \/ \E c \in dels : Delete(m, c)
  \/ ResetLicense(m)

\* the characters drawn in Spec: every generate_code draws CodeA
SpecChars == {chars[1]}

\* the installation whose calls Spec runs
Installed == {"m1"}

\* one installation, its calls one at a time
Next ==
  \/ Tick
  \/ \E m \in Installed : Calls(m, SpecChars, ExpiresDays, RawInputs, DeleteInputs, MaxBatch)

Spec == Init /\ [][Next]_vars

\* ------------------------------------------------------- the typed codes
\* one installation where codes are generated one by one, typed into
\* verify_code and redeem_code in every spelling, and the license reset,
\* while the clock advances
NextTyped ==
  \/ Tick
  \/ \E m \in Installed :
       \/ \E p \in PackageTypes, e \in ExpiresDays, c \in SpecChars :
            GenerateCode(m, p, e, Draw(c))
       \/ \E raw \in RawInputs : Verify(m, raw)
       \/ \E raw \in RawInputs : Redeem(m, raw)
       \/ ResetLicense(m)

SpecTyped == Init /\ [][NextTyped]_vars

\* ------------------------------------------------- two codes, damaged files
CodeB == MakeCode(Draw(chars[2]))

\* the characters drawn in SpecStore: generate_code draws CodeA or CodeB
StoreChars == {chars[1], chars[2]}

\* the texts typed into verify_code and redeem_code in SpecStore
StoreInputs ==
  {CodeA, <<" ">> \o Lower(CodeB) \o <<"\n">>, PresetPro1, UnknownCode}

\* the codes passed to delete_code in SpecStore
StoreDeletes == {CodeA, CodeB, Lower(CodeA), UnknownCode}

\* codes.json is damaged: open() or json.load() will fail on it
CorruptCodes(m) ==
  /\ codes[m] # Unreadable
  /\ codes' = [codes EXCEPT ![m] = Unreadable]
  /\ UNCHANGED <<license, now, data, redeemed, threads, view>>

\* license.json is damaged: open() or json.load() will fail on it
CorruptLicense(m) ==
  /\ license[m] # Unreadable
  /\ license' = [license EXCEPT ![m] = Unreadable]
  /\ UNCHANGED <<codes, now, data, redeemed, threads, view>>

\* one installation with two codes to draw, codes that never expire, and
\* files that may be damaged between two calls; the clock at rest
NextStore ==
  \E m \in Installed :
    \/ Calls(m, StoreChars, {None}, StoreInputs, StoreDeletes, MaxBatch)
    \/ CorruptCodes(m)
    \/ CorruptLicense(m)

SpecStore == Init /\ [][NextStore]_vars

\* ------------------------------------------------------- two installations
\* the texts typed on either machine in SpecMachines
MachineInputs == {PresetBasic1, PresetPro1, Lower(PresetPro1)}

\* two installations: the preset codes verified and redeemed and the license
\* reset on each, one call at a time, the clock at rest
NextMachines ==
  \E m \in Machines :
    \/ \E raw \in MachineInputs : Verify(m, raw)
    \/ \E raw \in MachineInputs : Redeem(m, raw)
    \/ ResetLicense(m)

SpecMachines == Init /\ [][NextMachines]_vars

\* ------------------------------------------------ concurrent redeem_code
\* Each thread makes one redeem_code call on machine m1; each load and each
\* save of a file is one step, and nothing orders the steps of two threads.

\* redeem_code(raw) is called: code = code.strip().upper()
Call(t, raw) ==
  /\ pc[t] = "idle"
  /\ pc' = [pc EXCEPT ![t] = "verify"]
  /\ loc' = [loc EXCEPT ![t].raw = raw, ![t].code = Normalize(raw)]
  /\ UNCHANGED <<codes, license, now, data, redeemed, view>>

\* verify_code(code) recording a valid preset code as used
VerifyStepMarking(t) ==
  /\ pc[t] = "verify"
  /\ LET code == loc[t].code
         v == verify_code(codes["m1"], license["m1"], code, now)
         cs == _load_codes(codes["m1"])
         seen == code \in DOMAIN cs /\ cs[code].is_used
     IN  /\ IF ~v.ok
            THEN /\ pc' = [pc EXCEPT ![t] = "done"]
                 /\ loc' = [loc EXCEPT ![t].seen = seen, ![t].ok = FALSE,
                                       ![t].msg = v.msg]
            ELSE /\ pc' = [pc EXCEPT ![t] =
                             IF code \in DOMAIN PRESET_CODES
                             THEN "preset_load" ELSE "codes_load"]
                 /\ loc' = [loc EXCEPT ![t].seen = seen, ![t].pkg = v.pkg]
         /\ license' =
              IF v.ok /\ code \in DOMAIN PRESET_CODES
              THEN [license EXCEPT !["m1"] = _save_used_preset_code(@, code)]
              ELSE license
  /\ UNCHANGED <<codes, now, data, redeemed, view>>

\* verify_code(code): one load of the license (a preset) or of the codes
VerifyStep(t) ==
  /\ pc[t] = "verify"
  /\ LET code == loc[t].code
         v == verify_code(codes["m1"], license["m1"], code, now)
         cs == _load_codes(codes["m1"])
         seen == code \in DOMAIN cs /\ cs[code].is_used
     IN  IF ~v.ok
         THEN /\ pc' = [pc EXCEPT ![t] = "done"]
              /\ loc' = [loc EXCEPT ![t].seen = seen, ![t].ok = FALSE,
                                    ![t].msg = v.msg]
         ELSE /\ pc' = [pc EXCEPT ![t] =
                          IF code \in DOMAIN PRESET_CODES
                          THEN "preset_load" ELSE "codes_load"]
              /\ loc' = [loc EXCEPT ![t].seen = seen, ![t].pkg = v.pkg]
  /\ UNCHANGED <<codes, license, now, data, redeemed, view>>

\* _save_used_preset_code: license_data = self._load_license()
PresetLoad(t) ==
  /\ pc[t] = "preset_load"
  /\ pc' = [pc EXCEPT ![t] = "preset_save"]
  /\ loc' = [loc EXCEPT ![t].lic = _load_license(license["m1"])]
  /\ UNCHANGED <<codes, license, now, data, redeemed, view>>

\* _save_used_preset_code: append and save, unless the code is in the list
PresetSave(t) ==
  /\ pc[t] = "preset_save"
  /\ pc' = [pc EXCEPT ![t] = "license_load"]
  /\ license' =
       IF InList(loc[t].code, Get(loc[t].lic, "used_preset_codes", <<>>))
       THEN license
       ELSE [license EXCEPT !["m1"] = _save_used_preset_code(loc[t].lic, loc[t].code)]
  /\ UNCHANGED <<codes, now, data, redeemed, loc, view>>

\* redeem_code: codes = self._load_codes()
CodesLoad(t) ==
  /\ pc[t] = "codes_load"
  /\ pc' = [pc EXCEPT ![t] = "codes_save"]
  /\ loc' = [loc EXCEPT ![t].cs = _load_codes(codes["m1"])]
  /\ UNCHANGED <<codes, license, now, data, redeemed, view>>

\* redeem_code: codes[code]["is_used"] = True ... self._save_codes(codes);
\* codes[code] raises KeyError when the loaded map lacks the code
CodesSave(t) ==
  /\ pc[t] = "codes_save"
  /\ IF loc[t].code \in DOMAIN loc[t].cs
     THEN /\ codes' = [codes EXCEPT !["m1"] = MarkUsed(loc[t].cs, loc[t].code, now)]
          /\ pc' = [pc EXCEPT ![t] = "license_load"]
     ELSE /\ pc' = [pc EXCEPT ![t] = "raised"]
          /\ UNCHANGED codes
  /\ UNCHANGED <<license, now, data, redeemed, loc, view>>

\* redeem_code: license_data = self._load_license()
LicenseLoad(t) ==
  /\ pc[t] = "license_load"
  /\ pc' = [pc EXCEPT ![t] = "license_save"]
  /\ loc' = [loc EXCEPT ![t].lic = _load_license(license["m1"])]
  /\ UNCHANGED <<codes, license, now, data, redeemed, view>>

\* redeem_code: the features are written, the license saved, success returned
LicenseSave(t) ==
  /\ pc[t] = "license_save"
  /\ pc' = [pc EXCEPT ![t] = "done"]
  /\ license' = [license EXCEPT !["m1"] = Unlock(loc[t].lic, loc[t].pkg[1], now)]
  /\ loc' = [loc EXCEPT ![t].ok = TRUE,
                        ![t].msg = MsgActivated(PackageInfo(loc[t].pkg[1]))]
  /\ redeemed' = [redeemed EXCEPT !["m1"] = Record(@, loc[t].code)]
  /\ UNCHANGED <<codes, now, data, view>>

\* the texts the racing threads redeem
RaceInputs == {CodeA, PresetPro1, Lower(PresetPro1)}

\* codes are generated before the threads start; then the threads interleave
NextRace ==
  \/ /\ \A t \in Threads : pc[t] = "idle"
     /\ \E p \in PackageTypes, e \in {None, Some(-1)} :
          GenerateCode("m1", p, e, Draw(chars[1]))
  \/ \E t \in Threads :
       \/ \E raw \in RaceInputs : Call(t, raw)
       \/ VerifyStep(t)
       \/ PresetLoad(t)
       \/ PresetSave(t)
       \/ CodesLoad(t)
       \/ CodesSave(t)
       \/ LicenseLoad(t)
       \/ LicenseSave(t)

SpecRace == Init /\ [][NextRace]_vars

\* ------------------------- redeem_code against generate_code and delete_code
\* Thread t1 redeems while thread t2 generates or deletes a code on the same
\* data directory; each load and each save of codes.json is one step.

\* generate_code: the code is drawn, codes = self._load_codes()
GenerateLoad(t, package_type, draw) ==
  /\ pc[t] = "idle"
  /\ pc' = [pc EXCEPT ![t] = "generate_save"]
  /\ loc' = [loc EXCEPT ![t].code = MakeCode(draw),
                        ![t].pkg = Some(package_type),
                        ![t].cs = _load_codes(codes["m1"])]
  /\ UNCHANGED <<codes, license, now, data, redeemed, view>>

\* generate_code: codes[code] = {...}; self._save_codes(codes)
GenerateSave(t) ==
  /\ pc[t] = "generate_save"
  /\ pc' = [pc EXCEPT ![t] = "done"]
  /\ codes' = [codes EXCEPT !["m1"] =
                 generate_code(loc[t].cs, loc[t].code, loc[t].pkg[1], None, now)]
  /\ UNCHANGED <<license, now, data, redeemed, loc, view>>

\* delete_code(code): codes = self._load_codes()
DeleteLoad(t, code) ==
  /\ pc[t] = "idle"
  /\ pc' = [pc EXCEPT ![t] = "delete_save"]
  /\ loc' = [loc EXCEPT ![t].code = code, ![t].cs = _load_codes(codes["m1"])]
  /\ UNCHANGED <<codes, license, now, data, redeemed, view>>

\* delete_code: del codes[code]; self._save_codes(codes), if the code is there
DeleteSave(t) ==
  /\ pc[t] = "delete_save"
  /\ pc' = [pc EXCEPT ![t] = "done"]
  /\ codes' = IF loc[t].code \in DOMAIN loc[t].cs
              THEN [codes EXCEPT !["m1"] = delete_code(loc[t].cs, loc[t].code).codes]
              ELSE codes
  /\ UNCHANGED <<license, now, data, redeemed, loc, view>>

\* the thread that redeems and the thread of the admin panel
Redeemer == "t1"
Admin == "t2"

\* CodeA and CodeB are generated before the threads start; then t1 redeems
\* CodeA while t2 generates CodeB again or deletes CodeA or CodeB
NextAdmin ==
  \/ /\ \A t \in Threads : pc[t] = "idle"
     /\ \E p \in PackageTypes, c \in StoreChars :
          GenerateCode("m1", p, None, Draw(c))
  \/ Call(Redeemer, CodeA)
  \/ VerifyStep(Redeemer)
  \/ CodesLoad(Redeemer)
  \/ CodesSave(Redeemer)
  \/ LicenseLoad(Redeemer)
  \/ LicenseSave(Redeemer)
  \/ \E p \in PackageTypes : GenerateLoad(Admin, p, Draw(chars[2]))
  \/ GenerateSave(Admin)
  \/ \E c \in {CodeA, CodeB} : DeleteLoad(Admin, c)
  \/ DeleteSave(Admin)

SpecAdmin == Init /\ [][NextAdmin]_vars

\* -------------------------------------------------------------- the window
\* MainApp (src/views.py) on installation m1: the splash, the activation
\* screen, the main UI with its feature gates, and the background thread of
\* prompt generation and follow-up.  The files are those of m1.

\* config.ADMIN_PASSWORD, and what may be typed for it
ADMIN_PASSWORD == "the admin password"
Passwords == {ADMIN_PASSWORD, "another password"}

\* the texts typed into the activation screen
ActivationInputs ==
  {PresetBasic1, <<" ">> \o Lower(PresetPro1) \o <<" ">>, UnknownCode,
   <<>>, <<" ", "\t">>}

\* what a handler leaves alone
files == <<codes, license, redeemed>>
flags == <<screen, is_admin, enter_timers, _config_unlocked>>
generation == <<_generating, generate_btn, followup_btn, conversation_pages,
                worker, after_queue, conversation_history>>

\* not self.is_admin and not is_feature_unlocked(feature), negated
GateOpen(feature) == is_admin \/ is_feature_unlocked(license["m1"], feature)

\* a call leaves the program: `service` is called, with `feature` locked or not
ExtCall(service, feature) ==
  [service |-> service, gate_open |-> GateOpen(feature)]

\* _finish_loading always building the main UI
_finish_loading_ungated ==
  /\ screen = "splash"
  /\ screen' = "main"
  /\ UNCHANGED <<files, now, data, threads, is_admin, enter_timers,
                 _config_unlocked, generation, ext>>

\* _finish_loading: the activation screen unless activated or admin
_finish_loading ==
  /\ screen = "splash"
  /\ screen' = IF get_unlocked_features(license["m1"]) = {} /\ ~is_admin
               THEN "activation" ELSE "main"
  /\ UNCHANGED <<files, now, data, threads, is_admin, enter_timers,
                 _config_unlocked, generation, ext>>

\* _activate: redeem the typed code; on success enter the main UI in 1500 ms
_activate(raw) ==
  /\ screen = "activation"
  /\ LET code == Strip(raw)
         r == redeem_code(codes["m1"], license["m1"], code, now)
     IN  IF code = <<>>
         THEN UNCHANGED <<files, enter_timers>>
         ELSE /\ codes' = [codes EXCEPT !["m1"] = r.codes]
              /\ license' = [license EXCEPT !["m1"] = r.license]
              /\ redeemed' = IF r.ok
                             THEN [redeemed EXCEPT !["m1"] = Record(@, Normalize(code))]
                             ELSE redeemed
              /\ enter_timers' = IF r.ok THEN enter_timers + 1 ELSE enter_timers
  /\ UNCHANGED <<now, data, threads, screen, is_admin, _config_unlocked,
                 generation, ext>>

\* _enter_main_app, called by the timer: every widget destroyed, _build_ui
_enter_main_app ==
  /\ enter_timers > 0
  /\ enter_timers' = enter_timers - 1
  /\ screen' = "main"
  /\ generate_btn' = "normal"
  /\ followup_btn' = "normal"
  /\ _config_unlocked' = FALSE
  /\ UNCHANGED <<files, now, data, threads, is_admin, _generating,
                 conversation_pages, worker, after_queue, ext,
                 conversation_history>>

\* do_login of the admin dialog of the activation screen
do_login(password) ==
  /\ screen = "activation"
  /\ IF password = ADMIN_PASSWORD
     THEN /\ is_admin' = TRUE
          /\ screen' = "main"
          /\ generate_btn' = "normal"
          /\ followup_btn' = "normal"
          /\ _config_unlocked' = FALSE
     ELSE UNCHANGED <<is_admin, screen, generate_btn, followup_btn,
                      _config_unlocked>>
  /\ UNCHANGED <<files, now, data, threads, enter_timers, _generating,
                 conversation_pages, worker, after_queue, ext,
                 conversation_history>>

\* a thread started by _generate_prompt or _send_followup; `called`: the
\* service has sent conversation_history to the API
StartWorker(kind) ==
  [kind |-> kind, running |-> TRUE, called |-> FALSE, posted |-> 0,
   progress |-> 0]

\* _generate_prompt; `ready`: a description is typed and the API configured
_generate_prompt(ready) ==
  /\ screen = "main"
  /\ IF GateOpen("prompt") /\ ~_generating /\ ready
     THEN /\ _generating' = TRUE
          /\ generate_btn' = "disabled"
          /\ worker' = StartWorker("generate")
          /\ ext' = ExtCall("chat", "prompt")
     ELSE UNCHANGED <<_generating, generate_btn, worker, ext>>
  /\ UNCHANGED <<files, now, data, threads, flags, followup_btn,
                 conversation_pages, after_queue, conversation_history>>

\* _send_followup without `if self._generating: return`
_send_followup_unguarded(ready) ==
  /\ screen = "main"
  /\ IF ready /\ conversation_pages > 0 /\ conversation_pages < MaxPages
        /\ Len(conversation_history) < MaxHistory
     THEN /\ _generating' = TRUE
          /\ followup_btn' = "disabled"
          /\ generate_btn' = "disabled"
          /\ worker' = StartWorker("followup")
          /\ ext' = ExtCall("chat", "prompt")
     ELSE UNCHANGED <<_generating, followup_btn, generate_btn, worker, ext>>
  /\ UNCHANGED <<files, now, data, threads, flags, conversation_pages, after_queue,
                 conversation_history>>

\* _send_followup; `ready`: a question is typed and the API configured
_send_followup(ready) ==
  /\ screen = "main"
  /\ IF ~_generating /\ ready /\ conversation_pages > 0
        /\ conversation_pages < MaxPages
        /\ Len(conversation_history) < MaxHistory
     THEN /\ _generating' = TRUE
          /\ followup_btn' = "disabled"
          /\ generate_btn' = "disabled"
          /\ worker' = StartWorker("followup")
          /\ ext' = ExtCall("chat", "prompt")
     ELSE UNCHANGED <<_generating, followup_btn, generate_btn, worker, ext>>
  /\ UNCHANGED <<files, now, data, threads, flags, conversation_pages, after_queue,
                 conversation_history>>

\* a handler that checks its form and starts a thread that calls `service`;
\* `gated`: the handler first returns unless the feature is unlocked
StartCall(service, feature, gated, ready) ==
  /\ screen = "main"
  /\ ext' = IF (gated => GateOpen(feature)) /\ ready
            THEN ExtCall(service, feature) ELSE ext
  /\ UNCHANGED <<files, now, data, threads, flags, generation>>

\* _optimize_input: the text is sent to the chat API
_optimize_input(ready) ==
  StartCall("chat", "prompt", FALSE, ready)

\* _start_packaging: PyInstallerService.build, behind the package gate
_start_packaging(ready) ==
  StartCall("build", "package", TRUE, ready)

\* _beginner_package: PyInstallerService.build
_beginner_package(ready) ==
  StartCall("build", "package", FALSE, ready)

\* _beginner_ai_package: analyze_project, then PyInstallerService.build
_beginner_ai_package(ready) ==
  StartCall("build", "package", FALSE, ready)

\* _ai_analyze_and_package: analyze_project, then _build_with_ai_config
_ai_analyze_and_package(ready) ==
  StartCall("build", "package", FALSE, ready)

\* RuntimeError("没有对话历史，请先生成提示词")
MsgNoHistory == "no conversation history"

\* followup without `if not self.conversation_history: raise`
followup_begins_unchecked ==
  /\ conversation_history' = Append(conversation_history, "user")
  /\ worker' = [worker EXCEPT !.called = TRUE]
  /\ UNCHANGED after_queue

\* followup up to messages.create: the error on an empty history, else the
\* question is appended and the history sent
followup_begins ==
  IF conversation_history = <<>>
  THEN /\ worker' = [worker EXCEPT !.running = FALSE, !.posted = @ + 1]
       /\ after_queue' = Append(after_queue,
                                [cb |-> "on_error", kind |-> "followup",
                                 msg |-> MsgNoHistory])
       /\ UNCHANGED conversation_history
  ELSE /\ conversation_history' = Append(conversation_history, "user")
       /\ worker' = [worker EXCEPT !.called = TRUE]
       /\ UNCHANGED after_queue

\* generate up to messages.create: the history is replaced by the one user
\* message and sent
generate_begins ==
  /\ conversation_history' = <<"user">>
  /\ worker' = [worker EXCEPT !.called = TRUE]
  /\ UNCHANGED after_queue

\* the worker runs the service method up to its API call
ServiceBegins ==
  /\ worker.running
  /\ ~worker.called
  /\ IF worker.kind = "generate" THEN generate_begins ELSE followup_begins
  /\ UNCHANGED <<files, now, data, threads, flags, _generating, generate_btn,
                 followup_btn, conversation_pages, ext>>

\* the service reports progress: callback(msg) posts a label update
ServiceProgress ==
  /\ worker.running
  /\ worker.called
  /\ worker.progress < MaxProgress
  /\ worker' = [worker EXCEPT !.progress = @ + 1]
  /\ after_queue' = Append(after_queue, [cb |-> "progress", kind |-> worker.kind])
  /\ UNCHANGED <<files, now, data, threads, flags, _generating, generate_btn,
                 followup_btn, conversation_pages, ext, conversation_history>>

\* the worker's API call ends, returning (the reply is appended to the
\* history and on_success is posted) or throwing (on_error is posted), and
\* the thread ends
ServiceEnds(cb) ==
  /\ worker.running
  /\ worker.called
  /\ worker' = [worker EXCEPT !.running = FALSE, !.posted = @ + 1]
  /\ after_queue' = Append(after_queue, [cb |-> cb, kind |-> worker.kind])
  /\ conversation_history' = IF cb = "on_success"
                             THEN Append(conversation_history, "assistant")
                             ELSE conversation_history
  /\ UNCHANGED <<files, now, data, threads, flags, _generating, generate_btn,
                 followup_btn, conversation_pages, ext>>

\* _clear_pages: the pages emptied and reset_conversation() called
_clear_pages ==
  /\ screen = "main"
  /\ conversation_pages' = 0
  /\ conversation_history' = <<>>
  /\ UNCHANGED <<files, now, data, threads, flags, _generating, generate_btn,
                 followup_btn, worker, after_queue, ext>>

\* on_error leaving _generating set
OnErrorKeepingFlag(kind) ==
  /\ generate_btn' = "normal"
  /\ followup_btn' = IF kind = "followup" THEN "normal" ELSE followup_btn
  /\ UNCHANGED <<_generating, conversation_pages>>

\* on_error of either worker
OnError(kind) ==
  /\ _generating' = FALSE
  /\ generate_btn' = "normal"
  /\ followup_btn' = IF kind = "followup" THEN "normal" ELSE followup_btn
  /\ UNCHANGED conversation_pages

\* on_success of either worker: _display_prompt or _add_followup_page first
OnSuccess(kind) ==
  /\ conversation_pages' = IF kind = "generate" THEN 1
                           ELSE conversation_pages + 1
  /\ _generating' = FALSE
  /\ generate_btn' = "normal"
  /\ followup_btn' = IF kind = "followup" THEN "normal" ELSE followup_btn

\* the UI thread runs the oldest after(0, ...) callback
RunAfter ==
  /\ after_queue # <<>>
  /\ after_queue' = Tail(after_queue)
  /\ LET job == Head(after_queue)
     IN  /\ CASE job.cb = "on_success" -> OnSuccess(job.kind)
              [] job.cb = "on_error" -> OnError(job.kind)
              [] OTHER -> UNCHANGED <<_generating, generate_btn, followup_btn,
                                      conversation_pages>>
         /\ worker' = IF job.cb = "progress" THEN worker ELSE NoWorker
  /\ UNCHANGED <<files, now, data, threads, flags, ext, conversation_history>>

\* _unlock_config: the admin panel opens on the admin password
_unlock_config(password) ==
  /\ screen = "main"
  /\ _config_unlocked' = (password = ADMIN_PASSWORD \/ _config_unlocked)
  /\ UNCHANGED <<files, now, data, threads, screen, is_admin, enter_timers,
                 generation, ext>>

\* _reset_license of the admin panel
_reset_license ==
  /\ screen = "main"
  /\ _config_unlocked
  /\ license' = [license EXCEPT !["m1"] = reset_license(@)]
  /\ UNCHANGED <<codes, redeemed, now, data, threads, flags, generation, ext>>

\* the parameters of generate_batch
generate_batch_params == <<"self", "package_type", "count", "expires_days">>

\* a call with keyword arguments raises TypeError when a keyword is no
\* parameter of the method
RaisesTypeError(params, keywords) == \E k \in keywords : ~InList(k, params)

\* _generate_codes of the admin panel: what the handler does to the code
\* file and the codes it shows, for a count of Len(draws)
_generate_codes(file, package_type, draws, expires_seconds, t) ==
  IF expires_seconds # None /\ expires_seconds[1] <= 0
  THEN [raised |-> FALSE, codes |-> file, shown |-> <<>>]
  ELSE IF RaisesTypeError(generate_batch_params, {"expires_seconds"})
  THEN [raised |-> TRUE, codes |-> file, shown |-> <<>>]
  ELSE [raised |-> FALSE,
        codes |-> generate_batch(file, draws, package_type, expires_seconds, t),
        shown |-> [i \in 1..Len(draws) |-> MakeCode(draws[i])]]

\* the "generate codes" button of the admin panel
GenerateCodesClicked(package_type, draws, expires_seconds) ==
  /\ screen = "main"
  /\ _config_unlocked
  /\ codes' = [codes EXCEPT !["m1"] =
                 _generate_codes(@, package_type, draws, expires_seconds, now).codes]
  /\ UNCHANGED <<license, redeemed, now, data, threads, view>>

\* _on_closing, and the program started again: the files stay
Restart ==
  /\ screen # "splash"
  /\ screen' = "splash"
  /\ is_admin' = FALSE
  /\ enter_timers' = 0
  /\ _generating' = FALSE
  /\ generate_btn' = "normal"
  /\ followup_btn' = "normal"
  /\ conversation_pages' = 0
  /\ worker' = NoWorker
  /\ after_queue' = <<>>
  /\ _config_unlocked' = FALSE
  /\ ext' = NoExt
  /\ conversation_history' = <<>>
  /\ UNCHANGED <<files, now, data, threads>>

\* the expiry the admin panel computes, in seconds
ExpiresSeconds == {None, Some(0), Some(1)}

\* the draws of the admin panel's batch
PanelDraws == UNION {[1..n -> {Draw(chars[1])}] : n \in 0..MaxBatch}

\* the handlers of the main UI
MainHandlers ==
  \E ready \in BOOLEAN :
    \/ _generate_prompt(ready)
    \/ _send_followup(ready)
    \/ _optimize_input(ready)
    \/ _start_packaging(ready)
    \/ _beginner_package(ready)
    \/ _beginner_ai_package(ready)
    \/ _ai_analyze_and_package(ready)

\* the handlers of the admin panel
PanelHandlers ==
  \/ \E password \in Passwords : _unlock_config(password)
  \/ _reset_license
  \/ \E p \in PackageTypes, ds \in PanelDraws, e \in ExpiresSeconds :
       GenerateCodesClicked(p, ds, e)

\* the steps of the background thread and of the UI thread's event loop
ThreadSteps ==
  \/ ServiceBegins
  \/ ServiceProgress
  \/ ServiceEnds("on_success")
  \/ ServiceEnds("on_error")
  \/ RunAfter

NextView ==
  \/ _finish_loading
  \/ \E raw \in ActivationInputs : _activate(raw)
  \/ _enter_main_app
  \/ \E password \in Passwords : do_login(password)
  \/ MainHandlers
  \/ PanelHandlers
  \/ ThreadSteps
  \/ Restart

SpecView == Init /\ [][NextView]_vars

\* the thread runs, the service call returns or throws, and the event loop
\* runs its callbacks
Fairness ==
  /\ WF_vars(ServiceBegins)
  /\ WF_vars(ServiceEnds("on_success") \/ ServiceEnds("on_error"))
  /\ WF_vars(RunAfter)

SpecViewFair == SpecView /\ Fairness

\* ------------------------------------------------------- the conversation
\* the main UI of an admin: prompts generated, follow-ups sent and the pages
\* cleared while the worker thread runs the service
NextChat ==
  \/ _finish_loading
  \/ do_login(ADMIN_PASSWORD)
  \/ \E ready \in BOOLEAN : _generate_prompt(ready)
  \/ \E ready \in BOOLEAN : _send_followup(ready)
  \/ _clear_pages
  \/ ThreadSteps

SpecChat == Init /\ [][NextChat]_vars

\* ------------------------------------------------------ the prompt history
\* what the data manager's actions leave alone
program == <<codes, license, now, redeemed, pc, loc, view>>

\* _add_to_history: the record of the prompt just generated is added; the
\* records are numbered in the order of their creation
AddToHistory ==
  /\ history_added < MaxAdds
  /\ history_added' = history_added + 1
  /\ history_file' = add_history(history_file, history_added + 1)
  /\ UNCHANGED <<program, snippets_file, ai_websites_file, custom_config_file,
                 LANGUAGE_FRAMEWORKS>>

\* _delete_history_item(index): load, pop(index), save_history
DeleteHistoryItem(index) ==
  /\ LET history == load_history(history_file)
     IN  history_file' = IF 0 <= index /\ index < Len(history)
                         THEN save_history(history_file, Pop(history, index))
                         ELSE history_file
  /\ UNCHANGED <<program, history_added, snippets_file, ai_websites_file,
                 custom_config_file, LANGUAGE_FRAMEWORKS>>

\* _clear_history
ClearHistory ==
  /\ history_file' = clear_history(history_file)
  /\ UNCHANGED <<program, history_added, snippets_file, ai_websites_file,
                 custom_config_file, LANGUAGE_FRAMEWORKS>>

\* history.json is damaged: open() or json.load() will fail on it
CorruptHistory ==
  /\ history_file # Unreadable
  /\ history_file' = Unreadable
  /\ UNCHANGED <<program, history_added, snippets_file, ai_websites_file,
                 custom_config_file, LANGUAGE_FRAMEWORKS>>

\* the rows of the history list whose delete button is pressed
HistoryIndexes == {0, 1}

\* prompts are added to the history, its two oldest rows deleted, the
\* history cleared and its file damaged
NextHistory ==
  \/ AddToHistory
  \/ \E index \in HistoryIndexes : DeleteHistoryItem(index)
  \/ ClearHistory
  \/ CorruptHistory

SpecHistory == Init /\ [][NextHistory]_vars

\* ------------------------------------------- built-in snippets and websites
\* the names, categories and texts typed into the snippet dialogs
SnippetNames == {PresetSnippet, "my snippet", "another snippet"}
SnippetTexts == {"text one", "text two"}

\* add_snippet(name, category, content)
AddSnippet(name, category, content) ==
  /\ snippets_file' = add_snippet(snippets_file, name, category, content).file
  /\ UNCHANGED <<program, history_file, history_added, ai_websites_file,
                 custom_config_file, LANGUAGE_FRAMEWORKS>>

\* update_snippet(name, category, content)
UpdateSnippet(name, category, content) ==
  /\ snippets_file' = update_snippet(snippets_file, name, category, content).file
  /\ UNCHANGED <<program, history_file, history_added, ai_websites_file,
                 custom_config_file, LANGUAGE_FRAMEWORKS>>

\* delete_snippet(name)
DeleteSnippet(name) ==
  /\ snippets_file' = delete_snippet(snippets_file, name).file
  /\ UNCHANGED <<program, history_file, history_added, ai_websites_file,
                 custom_config_file, LANGUAGE_FRAMEWORKS>>

\* save_snippets(snippets) with any dict, a preset name among its keys or not
SaveSnippets(snippets) ==
  /\ snippets_file' = save_snippets(snippets_file, snippets)
  /\ UNCHANGED <<program, history_file, history_added, ai_websites_file,
                 custom_config_file, LANGUAGE_FRAMEWORKS>>

\* the dicts passed to save_snippets
SnippetDicts ==
  {[name \in {PresetSnippet} |-> Snippet("mine", "text one")],
   [name \in SnippetNames |-> Snippet("mine", "text two")]}

\* the names and urls typed into the website dialogs
WebsiteNames == {PresetWebsite, "my website"}
WebsiteUrls == {"url one", "url two"}

\* add_ai_website(name, url)
AddAiWebsite(name, url) ==
  /\ ai_websites_file' = add_ai_website(ai_websites_file, name, url, "").file
  /\ UNCHANGED <<program, history_file, history_added, snippets_file,
                 custom_config_file, LANGUAGE_FRAMEWORKS>>

\* update_ai_website(name, url)
UpdateAiWebsite(name, url) ==
  /\ ai_websites_file' = update_ai_website(ai_websites_file, name, url, "").file
  /\ UNCHANGED <<program, history_file, history_added, snippets_file,
                 custom_config_file, LANGUAGE_FRAMEWORKS>>

\* delete_ai_website(name)
DeleteAiWebsite(name) ==
  /\ ai_websites_file' = delete_ai_website(ai_websites_file, name).file
  /\ UNCHANGED <<program, history_file, history_added, snippets_file,
                 custom_config_file, LANGUAGE_FRAMEWORKS>>

\* save_ai_websites(websites) with any dict
SaveAiWebsites(websites) ==
  /\ ai_websites_file' = save_ai_websites(ai_websites_file, websites)
  /\ UNCHANGED <<program, history_file, history_added, snippets_file,
                 custom_config_file, LANGUAGE_FRAMEWORKS>>

\* the dicts passed to save_ai_websites
WebsiteDicts ==
  {[name \in {PresetWebsite} |-> Website("url one", "mine")],
   [name \in WebsiteNames |-> Website("url two", "mine")]}

\* snippets.json or ai_websites.json is damaged
CorruptStore ==
  /\ \/ snippets_file' = Unreadable /\ UNCHANGED ai_websites_file
     \/ ai_websites_file' = Unreadable /\ UNCHANGED snippets_file
  /\ UNCHANGED <<program, history_file, history_added, custom_config_file,
                 LANGUAGE_FRAMEWORKS>>

\* the custom snippets and websites are added, updated, deleted and saved
NextPresets ==
  \/ \E name \in SnippetNames, category \in {"mine"}, content \in SnippetTexts :
       \/ AddSnippet(name, category, content)
       \/ UpdateSnippet(name, category, content)
  \/ \E name \in SnippetNames : DeleteSnippet(name)
  \/ \E snippets \in SnippetDicts : SaveSnippets(snippets)
  \/ \E name \in WebsiteNames, url \in WebsiteUrls :
       \/ AddAiWebsite(name, url)
       \/ UpdateAiWebsite(name, url)
  \/ \E name \in WebsiteNames : DeleteAiWebsite(name)
  \/ \E websites \in WebsiteDicts : SaveAiWebsites(websites)
  \/ CorruptStore

SpecPresets == Init /\ [][NextPresets]_vars

\* ------------------------------------------------------------ the languages
\* the languages, categories and frameworks typed into the settings
LanguageNames == {"Python", "MyLang"}
CategoryNames == {"Web", "Tools"}
FrameworkNames == {"Mine"}

\* get_all_languages() is called
GetAllLanguages ==
  /\ LANGUAGE_FRAMEWORKS' =
       get_all_languages(custom_config_file, LANGUAGE_FRAMEWORKS).table
  /\ UNCHANGED <<program, history_file, history_added, snippets_file,
                 ai_websites_file, custom_config_file>>

\* add_language(name)
AddLanguage(name) ==
  /\ custom_config_file' =
       add_language(custom_config_file, LANGUAGE_FRAMEWORKS, name, "globe").file
  /\ UNCHANGED <<program, history_file, history_added, snippets_file,
                 ai_websites_file, LANGUAGE_FRAMEWORKS>>

\* add_category_to_language(language, category)
AddCategoryToLanguage(language, category) ==
  /\ custom_config_file' =
       add_category_to_language(custom_config_file, LANGUAGE_FRAMEWORKS,
                                language, category, None).file
  /\ UNCHANGED <<program, history_file, history_added, snippets_file,
                 ai_websites_file, LANGUAGE_FRAMEWORKS>>

\* add_framework_to_category(language, category, framework)
AddFrameworkToCategory(language, category, framework) ==
  /\ custom_config_file' =
       add_framework_to_category(custom_config_file, LANGUAGE_FRAMEWORKS,
                                 language, category, framework).file
  /\ UNCHANGED <<program, history_file, history_added, snippets_file,
                 ai_websites_file, LANGUAGE_FRAMEWORKS>>

\* delete_custom_language(name)
DeleteCustomLanguage(name) ==
  /\ custom_config_file' =
       delete_custom_language(custom_config_file, LANGUAGE_FRAMEWORKS, name).file
  /\ UNCHANGED <<program, history_file, history_added, snippets_file,
                 ai_websites_file, LANGUAGE_FRAMEWORKS>>

\* save_custom_config(config) with the extension of `language` removed
RemoveExtension(language) ==
  /\ LET config == load_custom_config(custom_config_file)
     IN  /\ language \in DOMAIN Languages(config)
         /\ custom_config_file' =
              save_custom_config(custom_config_file,
                WithLanguages(config, DelKey(Languages(config), language)))
  /\ UNCHANGED <<program, history_file, history_added, snippets_file,
                 ai_websites_file, LANGUAGE_FRAMEWORKS>>

\* languages, categories and frameworks are added, the languages listed,
\* and the extension of a built-in language removed again
NextLanguages ==
  \/ GetAllLanguages
  \/ \E name \in LanguageNames : AddLanguage(name)
  \/ \E language \in LanguageNames, category \in CategoryNames :
       AddCategoryToLanguage(language, category)
  \/ \E language \in LanguageNames, category \in CategoryNames,
        framework \in FrameworkNames :
       AddFrameworkToCategory(language, category, framework)
  \/ \E name \in LanguageNames : DeleteCustomLanguage(name)
  \/ \E language \in DOMAIN BuiltinLanguages : RemoveExtension(language)

SpecLanguages == Init /\ [][NextLanguages]_vars

\* ------------------------------------------------------------------ claims
\* the package of a code verify_code accepts: a preset's, or its record's
PackageOf(m, code) ==
  IF code \in DOMAIN PRESET_CODES THEN PRESET_CODES[code]
  ELSE _load_codes(codes[m])[code].package_type

\* the feature list as a set
Features(package_type) ==
  {PACKAGES[package_type].features[i] :
     i \in 1..Len(PACKAGES[package_type].features)}

\* C1: over any sequence of calls run one at a time, redeem_code returns
\* success at most once for a given generated (non-preset) code string.
C1_GeneratedRedeemedAtMostOnce ==
  \A m \in Machines : \A c \in redeemed[m].again : c \in DOMAIN PRESET_CODES

\* C2: over any sequence of calls on one machine, reset_license included,
\* redeem_code returns success at most once for a given preset code.
C2_PresetRedeemedAtMostOnce ==
  \A m \in Machines : \A c \in redeemed[m].again : c \notin DOMAIN PRESET_CODES

\* C3: reset_license empties unlocked_features, nulls activated_at, and leaves
\* the code records and the consumed-preset list as they were.
C3_ResetLicenseFrame ==
  [][\A m \in Machines :
       ResetLicense(m) =>
         /\ license'[m].unlocked_features = <<>>
         /\ license'[m].activated_at = None
         /\ codes' = codes
         /\ _load_used_preset_codes(license'[m]) = _load_used_preset_codes(license[m])]_vars


\* a code generated at t with expires_days has no expiry or a future one
NotPast(expires_days, t) ==
  ExpiresAt(expires_days, t) = None \/ ExpiresAt(expires_days, t)[1] > t

\* the draws of a generate_batch call of Spec
BatchDraws ==
  UNION {[1..n -> {Draw(c) : c \in SpecChars}] : n \in 0..MaxBatch}

\* the days from t on at which a code expiring at expires_at has not expired
ValidDays(expires_at, t) ==
  {d \in t..MaxTime : expires_at = None \/ d <= expires_at[1]}

\* C5: verify_code on a freshly generated code (any package type, no expiry
\* or a future one) returns valid with the code's package type; after
\* redeem_code succeeds on a generated code, verify_code on it returns
\* invalid with the already-used message.
C5_FreshValidThenUsed ==
  \A m \in Installed :
    /\ \A p \in PackageTypes, e \in ExpiresDays :
         NotPast(e, now) =>
           LET one == generate_code(codes[m], CodeA, p, e, now)
               valid == [ok |-> TRUE, msg |-> MsgValid, pkg |-> Some(p)]
               days == ValidDays(ExpiresAt(e, now), now)
           IN  /\ \A d \in days : verify_code(one, license[m], CodeA, d) = valid
               /\ redeem_code(one, license[m], CodeA, now).ok
               /\ \A ds \in BatchDraws :
                    LET many == generate_batch(codes[m], ds, p, e, now)
                    IN  \A i \in 1..Len(ds), d \in days :
                          verify_code(many, license[m], MakeCode(ds[i]), d) = valid
    /\ \A raw \in RawInputs :
         LET r == redeem_code(codes[m], license[m], raw, now)
         IN  (r.ok /\ Normalize(raw) \notin DOMAIN PRESET_CODES) =>
               \A d \in now..MaxTime :
                 verify_code(r.codes, r.license, raw, d)
                   = [ok |-> FALSE, msg |-> MsgUsed, pkg |-> None]

\* C5 witness: a code redeemed the day it was generated, which verify_code
\* now reports already used
C5_Witness ==
  /\ CodeA \in DOMAIN codes["m1"]
  /\ codes["m1"][CodeA].is_used
  /\ codes["m1"][CodeA].used_at = codes["m1"][CodeA].created_at
  /\ CodeA \in redeemed["m1"].once
  /\ verify_code(codes["m1"], license["m1"], CodeA, now).msg = MsgUsed

\* C6: a generated code whose expires_at is in the past is never reported
\* valid and never redeemed, used or not; when its record is unused, the
\* message of verify_code is the expired message.
C6_ExpiredRejected ==
  \A m \in Installed : \A c \in DOMAIN _load_codes(codes[m]) :
    LET rec == _load_codes(codes[m])[c]
    IN  (rec.expires_at # None /\ rec.expires_at[1] < now) =>
          \A raw \in RawInputs :
            Normalize(raw) = c =>
              /\ ~verify_code(codes[m], license[m], raw, now).ok
              /\ ~redeem_code(codes[m], license[m], raw, now).ok
              /\ ~rec.is_used =>
                   verify_code(codes[m], license[m], raw, now).msg = MsgExpired

\* C6 witness: an unused code the clock has carried past its expiry
C6_Witness ==
  /\ CodeA \in DOMAIN codes["m1"]
  /\ ~codes["m1"][CodeA].is_used
  /\ codes["m1"][CodeA].expires_at = Some(codes["m1"][CodeA].created_at + 1)
  /\ codes["m1"][CodeA].expires_at[1] < now
  /\ verify_code(codes["m1"], license["m1"], Lower(CodeA), now).msg = MsgExpired

\* C8: every successful redeem_code replaces unlocked_features by the feature
\* set of the code's package (no union with the previous set) and records the
\* package as package_type with a non-null activated_at; a basic code redeemed
\* after a pro code leaves {prompt, jump}.
C8_RedeemReplacesFeatures ==
  \A m \in Installed : \A raw \in RawInputs :
    LET r == redeem_code(codes[m], license[m], raw, now)
    IN  r.ok =>
          LET pkg == PackageOf(m, Normalize(raw))
          IN  /\ r.license.unlocked_features = PACKAGES[pkg].features
              /\ get_unlocked_features(r.license) = Features(pkg)
              /\ r.license.package_type = pkg
              /\ r.license.activated_at # None
              /\ (Get(license[m], "package_type", "") = "pro" /\ pkg = "basic")
                   => get_unlocked_features(r.license) = {"prompt", "jump"}

\* C8 witness: the pro preset was redeemed, then a basic code
C8_Witness ==
  /\ InList(PresetPro1, _load_used_preset_codes(license["m1"]))
  /\ Get(license["m1"], "package_type", "") = "basic"
  /\ get_unlocked_features(license["m1"]) = {"prompt", "jump"}
  /\ CodeA \in DOMAIN codes["m1"]
  /\ codes["m1"][CodeA].is_used
  /\ codes["m1"][CodeA].package_type = "basic"
  /\ license["m1"].activated_at = Some(codes["m1"][CodeA].used_at)

C10_UsedExpiredTerminal ==
  [][\A m \in Machines :
       /\ \A c \in DOMAIN _load_codes(codes[m]) :
            ( \/ _load_codes(codes[m])[c].is_used
              \/ verify_code(codes[m], license[m], c, now).msg = MsgExpired )
            => ~verify_code(codes'[m], license'[m], c, now').ok
       /\ ResetLicense(m) => codes' = codes]_vars


\* C4: two redeem_code calls for the same unused generated code, run
\* concurrently with each file load and save a separate step and no lock, can
\* both observe is_used = false and both return success; a call that returns
\* success on a generated code has observed is_used = false.
C4_BothSucceedOnlyUnseen ==
  \A t \in Threads :
    (pc[t] = "done" /\ loc[t].ok /\ loc[t].code \notin DOMAIN PRESET_CODES) =>
      /\ ~loc[t].seen
      /\ loc[t].code \in DOMAIN codes["m1"]
      /\ codes["m1"][loc[t].code].is_used
      /\ loc[t].code \in redeemed["m1"].once

\* C4 witness: both threads redeemed CodeA, each having seen it unused
C4_Witness ==
  /\ \A t \in Threads :
       /\ pc[t] = "done"
       /\ loc[t].ok
       /\ loc[t].code = CodeA
       /\ ~loc[t].seen
  /\ CodeA \in redeemed["m1"].again


\* C7: the first redeem_code of a preset code on a machine succeeds and
\* unlocks the features of its package; redeeming it again at once fails with
\* the used-on-this-machine message; and a call on one machine changes nothing
\* on the other, where the preset code stays as redeemable as it was.
C7_PresetPerMachine ==
  /\ [](\A m \in Machines : \A p \in DOMAIN PRESET_CODES :
          p \notin redeemed[m].once =>
            LET r == redeem_code(codes[m], license[m], p, now)
                again == redeem_code(r.codes, r.license, p, now)
            IN  /\ r.ok
                /\ r.license.unlocked_features
                     = PACKAGES[PRESET_CODES[p]].features
                /\ ~again.ok
                /\ again.msg = MsgPresetUsed
                /\ again.license = r.license)
  /\ [][\A m \in Machines :
          (license'[m] # license[m] \/ codes'[m] # codes[m]) =>
            \A o \in Machines \ {m} :
              /\ license'[o] = license[o]
              /\ codes'[o] = codes[o]
              /\ redeemed'[o] = redeemed[o]
              /\ \A p \in DOMAIN PRESET_CODES :
                   verify_code(codes'[o], license'[o], p, now')
                     = verify_code(codes[o], license[o], p, now)]_vars

\* C7 witness: the pro preset is consumed on m1, where redeeming it again
\* fails, and is still redeemable on m2, whose license is untouched
C7_Witness ==
  /\ InList(PresetPro1, _load_used_preset_codes(license["m1"]))
  /\ get_unlocked_features(license["m1"]) = Features("pro")
  /\ redeem_code(codes["m1"], license["m1"], PresetPro1, now).msg = MsgPresetUsed
  /\ license["m2"] = DefaultLicense
  /\ redeemed["m2"].once = {}
  /\ redeem_code(codes["m2"], license["m2"], PresetPro1, now).ok

\* C11: verify_code writes nothing: the step a call spends in verify_code,
\* whether the code is a preset or a generated one and whatever the answer,
\* leaves the code file and the license file (the consumed-preset list
\* included) as they were.
C11_VerifyWritesNothing ==
  [][\A t \in Threads :
       (pc[t] = "verify" /\ pc'[t] # "verify") =>
         /\ codes' = codes
         /\ license' = license
         /\ \A m \in Machines :
              _load_used_preset_codes(license'[m]) = _load_used_preset_codes(license[m])]_vars

\* C11 witness: verify_code has answered a call on a preset code and a call
\* on a generated code, one valid and one not, and the preset is unconsumed
C11_Witness ==
  /\ pc["t1"] = "preset_load"
  /\ loc["t1"].code = PresetPro1
  /\ pc["t2"] = "done"
  /\ loc["t2"].code = CodeA
  /\ ~loc["t2"].ok
  /\ CodeA \in DOMAIN codes["m1"]
  /\ _load_used_preset_codes(license["m1"]) = <<>>

\* the answer verify_code gives when it rejects
Rejects == {MsgInvalid, MsgUsed, MsgExpired, MsgPresetUsed}

\* C12: when verify_code reports a code invalid (not found, already used,
\* expired, or a preset used on this machine), redeem_code returns failure
\* with that same message and leaves the code file and the license file
\* (consumed-preset list, unlocked_features, activated_at, package_type) as
\* they were.
C12_FailedRedeemChangesNothing ==
  \A m \in Installed : \A raw \in RawInputs :
    LET v == verify_code(codes[m], license[m], raw, now)
        r == redeem_code(codes[m], license[m], raw, now)
    IN  /\ r.ok <=> v.ok
        /\ ~v.ok =>
             /\ v.msg \in Rejects
             /\ r.msg = v.msg
             /\ r.codes = codes[m]
             /\ r.license = license[m]

\* C12 witness: a state where redeem_code fails for three reasons at once:
\* a consumed preset, a used generated code and an unknown code
C12_Witness ==
  /\ verify_code(codes["m1"], license["m1"], PresetPro1, now).msg = MsgPresetUsed
  /\ verify_code(codes["m1"], license["m1"], CodeA, now).msg = MsgUsed
  /\ redeem_code(codes["m1"], license["m1"], UnknownCode, now).msg = MsgInvalid
  /\ redeemed["m1"].once = {PresetPro1, CodeA}

\* a typed text, trimmed and in upper case
TypedKey == [raw \in RawInputs |-> Upper(Strip(raw))]

\* the record of a stored code is past its expiry at t
Expired(rec, t) == rec.expires_at # None /\ rec.expires_at[1] < t

\* C13: verify_code decides as follows.  The input is trimmed and put in upper
\* case.  A preset code is invalid exactly when it is in the machine's
\* consumed list and otherwise valid with the preset's package.  Any other
\* code is 'not found' when absent from the code map, else 'already used'
\* when is_used, else 'expired' when expires_at is in the past, else valid
\* with the record's package type.  Inputs that differ in case or surrounding
\* whitespace get the same answer, and a used and expired code is reported
\* 'already used'.
C13_VerifyDecision ==
  \A m \in Installed :
    LET answer == [raw \in RawInputs |->
                     verify_code(codes[m], license[m], raw, now)]
        cs == codes[m]
        used == _load_used_preset_codes(license[m])
    IN  \A raw \in RawInputs :
          LET v == answer[raw]
              key == TypedKey[raw]
          IN  /\ key \in {CodeA, PresetBasic1, PresetPro1, UnknownCode}
              /\ \A other \in RawInputs :
                   TypedKey[other] = key => answer[other] = v
              /\ key \in {PresetBasic1, PresetPro1} =>
                   /\ v.ok <=> ~(\E i \in 1..Len(used) : used[i] = key)
                   /\ v.ok => v.pkg = Some(PRESET_CODES[key])
                   /\ ~v.ok => v.msg = MsgPresetUsed /\ v.pkg = None
              /\ key \in {CodeA, UnknownCode} =>
                   /\ key \notin DOMAIN cs
                        => v = [ok |-> FALSE, msg |-> MsgInvalid, pkg |-> None]
                   /\ key \in DOMAIN cs =>
                        /\ cs[key].is_used
                             => v = [ok |-> FALSE, msg |-> MsgUsed, pkg |-> None]
                        /\ (~cs[key].is_used /\ Expired(cs[key], now))
                             => v = [ok |-> FALSE, msg |-> MsgExpired, pkg |-> None]
                        /\ (~cs[key].is_used /\ ~Expired(cs[key], now))
                             => v = [ok |-> TRUE, msg |-> MsgValid,
                                     pkg |-> Some(cs[key].package_type)]

\* C13 witness: a code both used and expired, which verify_code reports
\* already used when typed in lower case between blanks
C13_Witness ==
  /\ CodeA \in DOMAIN codes["m1"]
  /\ codes["m1"][CodeA].is_used
  /\ Expired(codes["m1"][CodeA], now)
  /\ verify_code(codes["m1"], license["m1"],
                 <<" ">> \o Lower(CodeA) \o <<"\n">>, now).msg = MsgUsed

\* C14: generate_code stores a record for the returned code with is_used
\* false, created_at now, and expires_at = now + the duration whenever a
\* duration is given (zero and negative ones included); expires_at is null
\* only when no duration is given.
C14_GenerateStoresExpiry ==
  \A m \in Installed : \A p \in PackageTypes, e \in ExpiresDays :
    LET after == generate_code(codes[m], CodeA, p, e, now)
    IN  /\ CodeA \in DOMAIN after
        /\ after[CodeA].package_type = p
        /\ after[CodeA].is_used = FALSE
        /\ after[CodeA].created_at = now
        /\ e # None => after[CodeA].expires_at = Some(now + e[1])
        /\ e = None => after[CodeA].expires_at = None

\* the codes of the rows get_all_codes returns
ListedCodes(codesFile) == {row.code : row \in get_all_codes(codesFile)}

\* C16: delete_code returns true exactly when the code is a key of the code
\* file; afterwards the code is absent from get_all_codes and verify_code
\* reports it not found, every other record is as it was, and the license file
\* is untouched; when the code is not a key, delete_code returns false and
\* changes nothing.
C16_DeleteFrame ==
  /\ [](\A m \in Installed : \A c \in StoreDeletes :
          LET cs == _load_codes(codes[m])
              d == delete_code(codes[m], c)
          IN  /\ d.ok <=> c \in DOMAIN cs
              /\ d.ok =>
                   /\ c \notin ListedCodes(d.codes)
                   /\ ListedCodes(d.codes) = ListedCodes(codes[m]) \ {c}
                   /\ verify_code(d.codes, license[m], c, now)
                        = [ok |-> FALSE, msg |-> MsgInvalid, pkg |-> None]
                   /\ \A k \in DOMAIN cs \ {c} :
                        k \in DOMAIN d.codes /\ d.codes[k] = cs[k]
              /\ ~d.ok => d.codes = codes[m])
  /\ [][\A m \in Installed :
          (\E c \in StoreDeletes :
             c \in DOMAIN _load_codes(codes[m]) /\ c \notin DOMAIN _load_codes(codes'[m]))
          => license' = license]_vars

\* C16 witness: CodeA was generated, redeemed and deleted while CodeB stays
\* stored, and verify_code reports CodeA not found
C16_Witness ==
  /\ CodeA \in redeemed["m1"].once
  /\ codes["m1"] # Unreadable
  /\ DOMAIN codes["m1"] = {CodeB}
  /\ ListedCodes(codes["m1"]) = {CodeB}
  /\ verify_code(codes["m1"], license["m1"], CodeA, now).msg = MsgInvalid
  /\ ~delete_code(codes["m1"], CodeA).ok

\* C17: a file that cannot be read or parsed reads as an empty store.  With
\* the code file unreadable, verify_code of any code that is not a preset
\* answers 'not found' and get_all_codes is empty; with the license file
\* unreadable, is_feature_unlocked is false for every feature and the
\* consumed-preset list reads as empty.
C17_UnreadableIsEmpty ==
  \A m \in Installed :
    /\ codes[m] = Unreadable =>
         /\ get_all_codes(codes[m]) = {}
         /\ \A raw \in StoreInputs :
              Normalize(raw) \notin DOMAIN PRESET_CODES =>
                /\ verify_code(codes[m], license[m], raw, now)
                     = [ok |-> FALSE, msg |-> MsgInvalid, pkg |-> None]
                /\ ~redeem_code(codes[m], license[m], raw, now).ok
    /\ license[m] = Unreadable =>
         /\ \A f \in FEATURES \cup {"video_parser"} :
              ~is_feature_unlocked(license[m], f)
         /\ get_unlocked_features(license[m]) = {}
         /\ _load_used_preset_codes(license[m]) = <<>>
         /\ \A p \in DOMAIN PRESET_CODES :
              verify_code(codes[m], license[m], p, now).ok

\* C17 witness: both files are unreadable after a code was stored and a
\* preset consumed
C17_Witness ==
  /\ codes["m1"] = Unreadable
  /\ license["m1"] = Unreadable
  /\ redeemed["m1"].once = {CodeA, PresetPro1}

\* the terminal callbacks of the worker waiting in the queue
Terminal ==
  SelectSeq(after_queue, LAMBDA job : job.cb \in {"on_success", "on_error"})

\* C19: a worker started by _generate_prompt or _send_followup posts exactly
\* one terminal callback, on_success when the service call returns and
\* on_error when it throws; when that callback has run, _generating is false
\* and the generate button is enabled; so whenever _generating becomes true
\* it eventually becomes false again, given that the service call ends and
\* the event loop runs.
C19_WorkerReleasesFlag ==
  /\ [](/\ worker.running => (worker.posted = 0 /\ Terminal = <<>> /\ _generating)
        /\ (worker.kind # "none" /\ ~worker.running) =>
             (worker.posted = 1 /\ Len(Terminal) = 1 /\ _generating
              /\ Terminal[1].kind = worker.kind)
        /\ worker.kind = "none" => (Terminal = <<>> /\ ~_generating)
        /\ (~_generating /\ screen = "main") => generate_btn = "normal")
  /\ [][(Terminal # <<>> /\ Terminal' = <<>> /\ screen' = "main")
          => (~_generating' /\ generate_btn' = "normal")]_vars
  /\ (_generating ~> ~_generating)

\* C19 witness: the follow-up worker's call has thrown, its on_error is
\* queued behind a progress report and the flag is still set
C19_Witness ==
  /\ worker = [kind |-> "followup", running |-> FALSE, called |-> TRUE,
               posted |-> 1, progress |-> 1]
  /\ after_queue = <<[cb |-> "progress", kind |-> "followup"],
                     [cb |-> "on_error", kind |-> "followup"]>>
  /\ _generating
  /\ generate_btn = "disabled"

\* C15: generate_batch repeats generate_code count times: each of the count
\* codes it returns is in the code file afterwards with is_used false and the
\* requested package type; and so it is for the call the admin panel's
\* generate-codes button makes, with the expiry the panel computed.
C15_BatchStoresCodes ==
  \A p \in PackageTypes, ds \in PanelDraws :
    /\ \A e \in ExpiresDays :
         LET after == generate_batch(codes["m1"], ds, p, e, now)
         IN  \A i \in 1..Len(ds) :
               /\ MakeCode(ds[i]) \in DOMAIN after
               /\ ~after[MakeCode(ds[i])].is_used
               /\ after[MakeCode(ds[i])].package_type = p
    /\ (screen = "main" /\ _config_unlocked) =>
         \A e \in {None, Some(1)} :
           LET panel == _generate_codes(codes["m1"], p, ds, e, now)
           IN  /\ ~panel.raised
               /\ Len(panel.shown) = Len(ds)
               /\ \A i \in 1..Len(ds) :
                    /\ panel.shown[i] \in DOMAIN panel.codes
                    /\ ~panel.codes[panel.shown[i]].is_used
                    /\ panel.codes[panel.shown[i]].package_type = p

\* C18: every handler that calls the chat API or starts a PyInstaller build
\* first checks is_feature_unlocked: for a user who is not admin, no chat call
\* is made while "prompt" is locked and no build is started while "package"
\* is locked, whichever button started it.
C18_GateBeforeCall ==
  ext.service \in {"chat", "build"} => ext.gate_open

\* C20: the main UI is entered only from the splash screen when
\* unlocked_features is non-empty or is_admin is set, or from the activation
\* screen when the timer of a successful redeem_code fires or the admin
\* password is typed; a failed redeem_code or an empty input starts no timer
\* and leaves the license file as it was.
C20_EntryToMain ==
  /\ [][(screen # "main" /\ screen' = "main") =>
          \/ /\ screen = "splash"
             /\ (get_unlocked_features(license["m1"]) # {} \/ is_admin)
          \/ /\ screen = "activation"
             /\ \/ enter_timers > 0 /\ enter_timers' = enter_timers - 1
                \/ ~is_admin /\ is_admin']_vars
  /\ [][enter_timers' > enter_timers =>
          /\ screen = "activation" /\ screen' = "activation"
          /\ \E raw \in ActivationInputs :
               LET r == redeem_code(codes["m1"], license["m1"], Strip(raw), now)
               IN  Strip(raw) # <<>> /\ r.ok /\ license'["m1"] = r.license]_vars
  /\ [](screen = "activation" =>
          /\ ~is_admin
          /\ enter_timers > 0 => get_unlocked_features(license["m1"]) # {}
          /\ \A raw \in ActivationInputs :
               LET r == redeem_code(codes["m1"], license["m1"], Strip(raw), now)
               IN  ~r.ok => (r.license = license["m1"] /\ r.codes = codes["m1"]))

\* C20 witness: the main UI entered by the timer of a successful redeem_code
\* of the pro preset, typed in lower case between blanks, after a failed one
C20_Witness ==
  /\ screen = "main"
  /\ ~is_admin
  /\ enter_timers = 0
  /\ redeemed["m1"] = [once |-> {PresetPro1}, again |-> {}]
  /\ get_unlocked_features(license["m1"]) = Features("pro")
  /\ ext = NoExt

\* C24: generate_code only adds a record: every record stored before the call
\* is stored after it with the same fields, whatever code is drawn.
C24_GenerateKeepsRecords ==
  \A p \in PackageTypes, c \in StoreChars :
    LET before == _load_codes(codes["m1"])
        after == _load_codes(generate_code(codes["m1"], MakeCode(Draw(c)),
                                           p, None, now))
    IN  \A k \in DOMAIN before : k \in DOMAIN after /\ after[k] = before[k]

\* C25: a code whose redemption succeeded is marked used for as long as it is
\* stored, also when generate_code or delete_code runs on another code
\* between the loads and saves of redeem_code.
C25_UsedMarkKept ==
  LET cs == _load_codes(codes["m1"])
  IN  \A c \in redeemed["m1"].once \ DOMAIN PRESET_CODES :
        c \in DOMAIN cs => cs[c].is_used

\* C26: redeem_code never raises: every call ends by returning its pair, also
\* when the code is deleted between verify_code and the reload of the codes.
C26_RedeemNeverRaises ==
  \A t \in Threads : pc[t] # "raised"

\* C29: with one call at a time, the license of m1 has unlocked features
\* exactly when it has an activation time, has a package type only when it
\* has one, lists as consumed only preset codes and each at most once, and a
\* successful redeem_code of a generated code leaves that list as it was.
C29_LicenseConsistent ==
  LET lic == _load_license(license["m1"])
      used == _load_used_preset_codes(license["m1"])
  IN  /\ (lic.unlocked_features # <<>>) <=> (lic.activated_at # None)
      /\ "package_type" \in DOMAIN lic => lic.activated_at # None
      /\ \A i \in DOMAIN used : used[i] \in DOMAIN PRESET_CODES
      /\ \A i, j \in DOMAIN used : used[i] = used[j] => i = j
      /\ \A raw \in StoreInputs :
           LET r == redeem_code(codes["m1"], license["m1"], raw, now)
           IN  r.ok /\ Normalize(raw) \notin DOMAIN PRESET_CODES
                 => _load_used_preset_codes(r.license) = used

\* C29 witness: a generated code can be redeemed on a license that lists a
\* consumed preset code
C29_Witness ==
  /\ _load_used_preset_codes(license["m1"]) # <<>>
  /\ redeem_code(codes["m1"], license["m1"], CodeA, now).ok

\* the worker is inside followup and has not reached its API call
InFollowup == worker.kind = "followup" /\ worker.running /\ ~worker.called

\* what followup posts when it raises for want of a conversation history
NoHistoryError == [cb |-> "on_error", kind |-> "followup", msg |-> MsgNoHistory]

Alternates(history) ==
  \A i \in 1..Len(history) :
    history[i] = IF i % 2 = 1 THEN "user" ELSE "assistant"

\* C27: conversation_history is empty or starts with a user message and
\* alternates user and assistant, after any generate, followup (returned or
\* failed), reset_conversation and _clear_pages, also a _clear_pages during
\* a worker's API call.
C27_HistoryAlternates == Alternates(conversation_history)

\* C28: a worker thread runs only while _generating is set, and a thread is
\* started only by a step taken with _generating false and no thread running:
\* at most one generation or follow-up worker is in flight.
C28_OneWorker ==
  /\ [](worker.running => _generating)
  /\ [][(worker' # worker /\ \E kind \in {"generate", "followup"} :
                               worker' = StartWorker(kind))
          => (~_generating /\ ~worker.running /\ after_queue = <<>>)]_vars
  /\ [][(conversation_history' # conversation_history /\ _generating)
          => (worker.running \/ conversation_history' = <<>>)]_vars

\* C28 witness: the follow-up worker is in its API call, and the buttons that
\* start a worker are disabled
C28_Witness ==
  /\ worker.kind = "followup"
  /\ worker.running
  /\ worker.called
  /\ _generating
  /\ conversation_history = <<"user", "assistant", "user">>

\* the last items of a list, item by item: as many as the cap allows
IsTailOf(saved, list) ==
  /\ Len(saved) = IF Len(list) <= HISTORY_CAP THEN Len(list) ELSE HISTORY_CAP
  /\ \A i \in 1..Len(saved) : saved[i] = list[Len(list) - Len(saved) + i]

\* C22: the stored prompt history never holds more than 50 records and holds
\* them in the order of their creation; after _add_to_history it ends with
\* the new record, preceded by the latest records stored before; and
\* save_history of a longer list stores its last 50 items in their order.
C22_HistoryCapped ==
  /\ [](LET stored == load_history(history_file)
        IN  /\ Len(stored) <= HISTORY_CAP
            /\ \A i, j \in 1..Len(stored) : i < j => stored[i] < stored[j]
            /\ \A extra \in {<<>>, <<history_added + 1>>,
                             <<history_added + 1, history_added + 2>>} :
                 IsTailOf(load_history(save_history(history_file, stored \o extra)),
                          stored \o extra))
  /\ [][history_added' = history_added + 1 =>
          IsTailOf(load_history(history_file'),
                   Append(load_history(history_file), history_added'))]_vars

\* C22 witness: more than 50 records were added and the oldest is gone
C22_Witness ==
  /\ history_added > HISTORY_CAP
  /\ Len(load_history(history_file)) = HISTORY_CAP
  /\ load_history(history_file)[1] = history_added - HISTORY_CAP + 1
  /\ load_history(history_file)[HISTORY_CAP] = history_added

\* C23: a built-in snippet or AI website cannot be overridden, modified or
\* deleted: add, update and delete on a preset name return False and leave
\* the custom store as it is, and get_all_snippets and get_all_ai_websites
\* return the built-in value under every preset name, whatever the custom
\* store holds.
C23_PresetsProtected ==
  /\ \A name \in DOMAIN DEFAULT_SNIPPETS :
       LET refused == [ok |-> FALSE, file |-> snippets_file]
       IN  /\ get_all_snippets(snippets_file)[name] = DEFAULT_SNIPPETS[name]
           /\ delete_snippet(snippets_file, name) = refused
           /\ \A content \in SnippetTexts :
                /\ add_snippet(snippets_file, name, "mine", content) = refused
                /\ update_snippet(snippets_file, name, "mine", content) = refused
  /\ \A name \in DOMAIN DEFAULT_AI_WEBSITES :
       LET refused == [ok |-> FALSE, file |-> ai_websites_file]
       IN  /\ get_all_ai_websites(ai_websites_file)[name] = DEFAULT_AI_WEBSITES[name]
           /\ delete_ai_website(ai_websites_file, name) = refused
           /\ \A url \in WebsiteUrls :
                /\ add_ai_website(ai_websites_file, name, url, "") = refused
                /\ update_ai_website(ai_websites_file, name, url, "") = refused

\* C23 witness: both custom stores hold an entry under a preset name, and
\* another entry
C23_Witness ==
  /\ DOMAIN load_snippets(snippets_file) = SnippetNames
  /\ load_snippets(snippets_file)[PresetSnippet] # DEFAULT_SNIPPETS[PresetSnippet]
  /\ DOMAIN load_ai_websites(ai_websites_file) = WebsiteNames
  /\ load_ai_websites(ai_websites_file)[PresetWebsite]
       # DEFAULT_AI_WEBSITES[PresetWebsite]

\* C30: get_all_languages leaves LANGUAGE_FRAMEWORKS as imported; a second
\* call returns what the first returned; and when the custom configuration
\* extends no built-in language, it returns the built-in categories and
\* frameworks of each built-in language.
C30_BuiltinTableKept ==
  LET first == get_all_languages(custom_config_file, LANGUAGE_FRAMEWORKS)
      again == get_all_languages(custom_config_file, first.table)
      custom == Languages(load_custom_config(custom_config_file))
  IN  /\ LANGUAGE_FRAMEWORKS = BuiltinLanguages
      /\ first.table = LANGUAGE_FRAMEWORKS
      /\ again.result = first.result
      /\ (DOMAIN custom \cap DOMAIN BuiltinLanguages = {})
           => \A lang \in DOMAIN BuiltinLanguages :
                first.result[lang] = BuiltinLanguages[lang]

=============================================================================
